---- MODULE Spec2Model ----
(***************************************************************************)
(* Model of the ocrmd core: the layout detector and splitter               *)
(* (src/src/ocrmd/split.py), the OCR consensus engine                      *)
(* (src/src/ocrmd/ocr.py), the heading detector                            *)
(* (src/src/ocrmd/structure.py), the document builder                      *)
(* (src/src/ocrmd/markdown.py), the configuration they read                *)
(* (src/src/ocrmd/config.py) and the commands that chain them              *)
(* (src/src/ocrmd/cli.py, with the slug of src/src/ocrmd/pdf.py and the    *)
(* margin crop of src/src/ocrmd/preprocess.py).                            *)
(*                                                                         *)
(* The specifications share the module, one per operation and family of    *)
(* inputs; Spec is their union:                                            *)
(*   SpecDetect    _detect_split_type applied to one image                 *)
(*   SpecSplit     split_pages, one loop iteration per step                *)
(*   SpecCrop      split_pages on one scan, every size and crop percentage *)
(*   SpecSpread    split_pages on a 2000 x 1000 scan with one gutter       *)
(*   SpecOcr       run_ocr, one candidate mode per step                    *)
(*   SpecOcrFair   run_ocr under weak fairness of its steps                *)
(*   SpecGate      OcrResult.is_low_quality applied to one result          *)
(*   SpecHeadings  detect_headings on one page                             *)
(*   SpecMarkdown  build_markdown on short books, one page per step        *)
(*   SpecBook      build_markdown on long books                            *)
(*   SpecCli       load_config and cmd_ocr with its overrides              *)
(*   SpecAll       cmd_all: the directory and the crop of every stage      *)
(***************************************************************************)
EXTENDS Integers, Sequences, FiniteSets, TLC

VARIABLES
    config,         \* the OcrConfig of the run (read-only once loaded)
    det_img,        \* SpecDetect: the image handed to _detect_split_type
    det_out,        \* SpecDetect: its outcome, NotCalled before the call
    split_pc,       \* split_pages: "idle", "start", "loop", "done", "raised"
    input_paths,    \* split_pages: the scans to split (the image each file holds)
    override_map,   \* split_pages: 0-based scan index -> overriding type
    idx,            \* split_pages: 0-based index of the next scan
    page_counter,   \* split_pages: number of the next logical page
    result,         \* split_pages: the page files written, in order
    split_log,      \* split_pages: the split type logged for each scan (line 138)
    cur,            \* split_pages: what the last iteration computed
    ocr_pc,         \* run_ocr: "idle", "start", "loop", "done", "raised"
    unique_psms,    \* run_ocr: the deduplicated list of modes
    psm_i,          \* run_ocr: 1-based position in unique_psms of the next mode
    results,        \* run_ocr: the OcrResult of every mode that succeeded
    attempts,       \* run_ocr: the modes handed to the engine so far, with their fate
                    \*          and the confidences the engine reported
    ocr_result,     \* run_ocr: the OcrResult returned
    gate_pc,        \* is_low_quality: "idle", "ready", "done"
    gate_in,        \* is_low_quality: the OcrResult it is called on
    low_quality,    \* is_low_quality: the value returned
    head_pc,        \* detect_headings: "idle", "start", "grouped", "done", "raised"
    head_in,        \* detect_headings: what the engine does, and the page height
    head_lines,     \* detect_headings: the LineInfo list of _group_lines
    head_nums,      \* detect_headings: the engine's line number of each LineInfo
    head_tags,      \* detect_headings: the (tag, text) list returned
    md_pc,          \* build_markdown: "idle", "start", "loop", "render", "done", "raised"
    page_paths,     \* build_markdown: the page files it is handed
    md_sorted,      \* build_markdown: sorted(page_paths)
    pages,          \* build_markdown: the PageCtx list built so far
    md_lines,       \* build_markdown: the lines of the document written
    cli_pc,         \* cmd_ocr: "idle", "start", "loaded", "loop", "done", "raised"
    yaml_data,      \* load_config: what yaml.safe_load returns for the file
    args,           \* cmd_ocr: the parsed command line
    ocr_calls,      \* cmd_ocr: what each call of run_ocr was handed
    all_pc,         \* cmd_all: "idle", "start", "extracted", "split", "ocr", "done"
    all_in,         \* cmd_all: the scan of the PDF, and the split type it gets
    dirs,           \* cmd_all: the sub-directory of the work directory each stage used
    all_pages,      \* cmd_all: the size of every page file split_pages wrote
    handed          \* cmd_all: the size of every image handed to run_ocr

detVars   == <<det_img, det_out>>
splitVars == <<split_pc, input_paths, override_map, idx, page_counter, result, split_log, cur>>
ocrVars   == <<ocr_pc, unique_psms, psm_i, results, attempts, ocr_result>>
gateVars  == <<gate_pc, gate_in, low_quality>>
headVars  == <<head_pc, head_in, head_lines, head_nums, head_tags>>
mdVars    == <<md_pc, page_paths, md_sorted, pages, md_lines>>
cliVars   == <<cli_pc, yaml_data, args, ocr_calls>>
allVars   == <<all_pc, all_in, dirs, all_pages, handed>>
vars == <<config, detVars, splitVars, ocrVars, gateVars, headVars, mdVars, cliVars, allVars>>

----------------------------------------------------------------------------
(* Bounds of the model *)

\* largest pixel value of a modelled image (the code has 0..255)
MaxPix == 1
\* largest width / height of an image handed to the detector alone
DetMaxW == 7
DetMaxH == 1
\* largest width / height of a scan read by split_pages
ScanMaxW == 3
ScanMaxH == 2
\* most scans in input_paths, most rules in split_strategy
MaxScans == 2
MaxRules == 2

----------------------------------------------------------------------------
(* Generic helpers *)

RECURSIVE SumSeq(_)
SumSeq(s) == IF s = <<>> THEN 0 ELSE Head(s) + SumSeq(Tail(s))

\* the largest element of a non-empty sequence
SeqMax(s) == CHOOSE v \in { s[i] : i \in DOMAIN s } : \A i \in DOMAIN s : s[i] <= v

\* the k-th smallest element of a non-empty sequence (k in 1..Len(s))
KthSmallest(s, k) ==
    CHOOSE v \in {s[i] : i \in DOMAIN s} :
        /\ Cardinality({i \in DOMAIN s : s[i] < v}) < k
        /\ Cardinality({i \in DOMAIN s : s[i] <= v}) >= k

\* Python's int() on a quotient a/b, b > 0: truncation toward zero
TruncDiv(a, b) == IF a >= 0 THEN a \div b ELSE -((-a) \div b)

----------------------------------------------------------------------------
(* Rational numbers: avg_conf is the mean of integers.  A rational is kept *)
(* in lowest terms with a positive denominator, so equal values are equal  *)
(* records.                                                                *)

Abs(x) == IF x < 0 THEN -x ELSE x

RECURSIVE GCD(_, _)
GCD(a, b) == IF b = 0 THEN a ELSE GCD(b, a % b)

Rat(n, d) ==
    LET g == GCD(Abs(n), d) IN [num |-> n \div g, den |-> d \div g]

RatLt(x, y) == x.num * y.den < y.num * x.den

----------------------------------------------------------------------------
(* Images.  The modelled images are made of vertical stripes: every row    *)
(* carries the same grey values (a flat page, a page with dark gutter      *)
(* columns).  An image is its size and the grey values of one of its rows, *)
(* row[column]; an image of height 0 has no row.                           *)

Pixels == 0..MaxPix

StripeImage(w, h, col) == [w |-> w, h |-> h, row |-> IF h = 0 THEN <<>> ELSE col]

StripeImages(ws, hs) ==
    UNION { UNION { { StripeImage(w, h, col) : col \in [1..w -> Pixels] }
                    : h \in hs } : w \in ws }

\* every pixel has the same value (also true of an image without pixels)
IsFlat(img) ==
    img.h > 0 => \A c1, c2 \in 1..img.w : img.row[c1] = img.row[c2]

IsEmpty(img) == img.w = 0 \/ img.h = 0

----------------------------------------------------------------------------
(* split.py: _detect_split_type *)

\* cv2.GaussianBlur(..., (51, 1), 0): kernel 51 wide, 1 high
KSize == 51
\* idx - current[-1] <= 5
MaxGap == 5

\* np.sum(arr, axis=0): one sum per column
\* the img.h pixels of a column are equal
Profile(img) ==
    [c \in 1..img.w |-> IF img.h = 0 THEN 0 ELSE img.h * img.row[c]] \o <<>>

\* cv2.GaussianBlur(profile.astype(np.float32), (51, 1), 0).  OpenCV takes
\* the 1-D array of W values as a matrix of W rows and `cols` = 1 column.
\* The kernel is KSize wide and 1 high, so it runs along a row; a row has a
\* single element, for which OpenCV reduces the kernel width to 1: the one
\* remaining tap has weight 1 and reads the row's only element.
GaussianBlur(profile) ==
    LET cols  == 1
        width == IF cols = 1 THEN 1 ELSE KSize
    IN  [r \in DOMAIN profile |->
            SumSeq([k \in 1..width |-> <<profile[r]>>[k]])] \o <<>>

\* np.median, doubled so that it stays an integer
Median2(s) ==
    LET n == Len(s) IN
    IF n % 2 = 1 THEN 2 * KthSmallest(s, (n + 1) \div 2)
    ELSE KthSmallest(s, n \div 2) + KthSmallest(s, n \div 2 + 1)

\* np.where(smoothed < np.median(smoothed) * 0.6): the 0-based columns, in
\* increasing order
\* a threshold test the wrong way round
MinimaAbove(smoothed, med2) ==
    SelectSeq([c \in DOMAIN smoothed |-> c - 1],
              LAMBDA c0 : 20 * smoothed[c0 + 1] > 6 * med2)

Minima(smoothed, med2) ==
    SelectSeq([c \in DOMAIN smoothed |-> c - 1],
              LAMBDA c0 : 20 * smoothed[c0 + 1] < 6 * med2)

\* the clustering loop of lines 82-89
RECURSIVE ClusterFrom(_, _, _, _)
ClusterFrom(minima, i, groups, current) ==
    IF i > Len(minima) THEN Append(groups, current)
    ELSE IF minima[i] - current[Len(current)] <= MaxGap
         THEN ClusterFrom(minima, i + 1, groups, Append(current, minima[i]))
         ELSE ClusterFrom(minima, i + 1, Append(groups, current), <<minima[i]>>)

\* The outcome of _detect_split_type: the layout type it returns, or the
\* exception it raises.  splits are the representative gutter columns the
\* function computes and then drops.
\* profile.max() of a zero-length profile raises ValueError; a profile whose
\* maximum is 0 divides to NaN, and NaN compares below nothing.
_detect_split_type(img) ==
    IF img.w = 0
    THEN [raised |-> TRUE, type |-> "none", splits |-> <<>>]
    ELSE
      LET profile  == Profile(img)
          mx       == SeqMax(profile)
          smoothed == GaussianBlur(profile)
          minima   == IF mx = 0 THEN <<>>
                      ELSE Minima(smoothed, Median2(smoothed))
          groups   == IF minima = <<>> THEN <<>>
                      ELSE ClusterFrom(minima, 2, <<>>, <<minima[1]>>)
          splits   == [g \in 1..Len(groups) |->
                          SumSeq(groups[g]) \div Len(groups[g])]
      IN  [raised |-> FALSE,
           type   |-> IF Len(splits) >= 2 THEN "quadruple"
                      ELSE IF Len(splits) = 1 THEN "double"
                      ELSE "single",
           splits |-> splits]

NotCalled == [raised |-> FALSE, type |-> "pending", splits |-> <<>>]


\* det_img when no image has been handed to the detector
NoImage == [w |-> 0, h |-> 0, row |-> <<>>, none |-> TRUE]

IdleDetect == det_img = NoImage /\ det_out = NotCalled

\* the variables of run_ocr and of is_low_quality while they are not running
NoResult == [text |-> <<>>, avg_conf |-> Rat(0, 1), used_psm |-> -1, num_chars |-> 0]

IdleOcr ==
    /\ ocr_pc = "idle"
    /\ unique_psms = <<>>
    /\ psm_i = 1
    /\ results = <<>>
    /\ attempts = <<>>
    /\ ocr_result = NoResult

IdleGate ==
    /\ gate_pc = "idle"
    /\ gate_in = NoResult
    /\ low_quality = FALSE

\* the variables of detect_headings while it is not running
NoHeadInput == [kind |-> "none"]

IdleHead ==
    /\ head_pc = "idle"
    /\ head_in = NoHeadInput
    /\ head_lines = <<>>
    /\ head_nums = <<>>
    /\ head_tags = <<>>

\* the variables of build_markdown while it is not running
IdleMd ==
    /\ md_pc = "idle"
    /\ page_paths = <<>>
    /\ md_sorted = <<>>
    /\ pages = <<>>
    /\ md_lines = <<>>

\* an absent value (None), and a present one
None == [some |-> FALSE]

Some(v) == [some |-> TRUE, val |-> v]

\* the variables of cmd_ocr while it is not running
NoArgs == [preprocess |-> None, tess_psm |-> None, crop_pct |-> None, pages |-> 0]

IdleCli ==
    /\ cli_pc = "idle"
    /\ yaml_data = <<>>
    /\ args = NoArgs
    /\ ocr_calls = <<>>

\* the variables of cmd_all while it is not running
NoPdf == [w |-> 0, h |-> 0, type |-> "single"]

IdleAll ==
    /\ all_pc = "idle"
    /\ all_in = NoPdf
    /\ dirs = <<>>
    /\ all_pages = <<>>
    /\ handed = <<>>

----------------------------------------------------------------------------
(* config.py: OcrConfig and SplitRule *)

SplitTypes == {"single", "double", "quadruple"}

\* SplitRule.page: an integer n, or a string "a-b"
IntPage(n) == [kind |-> "int", a |-> n, b |-> n]

RangePage(a, b) == [kind |-> "range", a |-> a, b |-> b]

\* the specifiers the modelled rules use: page 1, page 2, pages "1-2"
PageSpecs == { IntPage(1), IntPage(2), RangePage(1, 2) }

\* __post_init__ rejects every rule whose type is not one of the three
SplitRules == [page : PageSpecs, type : SplitTypes]

RuleLists == UNION { [1..n -> SplitRules] : n \in 0..MaxRules }

\* crop_pct in hundredths: out-of-range values are not rejected at load
CropPcts == {-50, 5, 34, 50}

\* the field defaults of OcrConfig; the two thresholds are numbers as the
\* YAML file writes them, which need not be whole: load_config checks the
\* type of neither
DefaultConfig ==
    [lang |-> "eng", dpi |-> 400, preprocess |-> "pil_gray",
     tess_psm |-> 6, crop_pct |-> 5, low_conf |-> Rat(50, 1), min_chars |-> Rat(100, 1),
     embed_images |-> "auto", split_strategy |-> <<>>]

----------------------------------------------------------------------------
(* split.py: overrides, cropping, splitting *)

\* the 0-based page indices a page specifier covers
_parse_page_range(spec) ==
    IF spec.kind = "int" THEN {spec.a - 1}
    ELSE {p - 1 : p \in spec.a..spec.b}

\* override[idx] = rule.type, rule after rule: a later rule overwrites the
\* entry an earlier rule made
RECURSIVE BuildOverrideFrom(_, _, _)
BuildOverrideFrom(rules, i, override) ==
    IF i > Len(rules) THEN override
    ELSE LET pr == _parse_page_range(rules[i].page)
         IN  BuildOverrideFrom(rules, i + 1,
                 [k \in (DOMAIN override) \cup pr |->
                     IF k \in pr THEN rules[i].type ELSE override[k]])

_build_override_map(rules) == BuildOverrideFrom(rules, 1, <<>>)

\* a lookup that always falls back to the default
DictGetDefault(d, key, default) == default

\* dict.get(key, default)
DictGet(d, key, default) == IF key \in DOMAIN d THEN d[key] ELSE default

\* a crop that trims the default margin whatever crop_pct says
_crop_margins_default(w, h, crop_pct) ==
    LET dx == TruncDiv(w * DefaultConfig.crop_pct, 100)
        dy == TruncDiv(h * DefaultConfig.crop_pct, 100)
    IN  <<dx, dy, w - dx, h - dy>>

\* the box (left, upper, right, lower) handed to img.crop
_crop_margins(w, h, crop_pct) ==
    LET dx == TruncDiv(w * crop_pct, 100)
        dy == TruncDiv(h * crop_pct, 100)
    IN  <<dx, dy, w - dx, h - dy>>

BoxW(box) == box[3] - box[1]
BoxH(box) == box[4] - box[2]

\* a split that cuts at the upper midpoint
SplitPartsCeil(split_type, w, h) ==
    IF split_type = "single" THEN << <<0, 0, w, h>> >>
    ELSE IF split_type = "double"
    THEN LET mid == (w + 1) \div 2
         IN  << <<0, 0, mid, h>>, <<mid, 0, w, h>> >>
    ELSE LET mid_x == (w + 1) \div 2
             mid_y == (h + 1) \div 2
         IN  << <<0, 0, mid_x, mid_y>>, <<mid_x, 0, w, mid_y>>,
                <<0, mid_y, mid_x, h>>, <<mid_x, mid_y, w, h>> >>

\* the boxes split_pages crops out of the margin-cropped image of size w x h
SplitParts(split_type, w, h) ==
    IF split_type = "single" THEN << <<0, 0, w, h>> >>
    ELSE IF split_type = "double"
    THEN LET mid == w \div 2
         IN  << <<0, 0, mid, h>>, <<mid, 0, w, h>> >>
    ELSE LET mid_x == w \div 2
             mid_y == h \div 2
         IN  << <<0, 0, mid_x, mid_y>>, <<mid_x, 0, w, mid_y>>,
                <<0, mid_y, mid_x, h>>, <<mid_x, mid_y, w, h>> >>

\* a save loop that advances the counter once per scan, not once per page
RECURSIVE SavePartsOnce(_, _, _, _, _)
SavePartsOnce(parts, i, res, counter, scan) ==
    IF i > Len(parts) THEN [result |-> res, page_counter |-> counter + 1, raised |-> FALSE]
    ELSE IF BoxW(parts[i]) <= 0 \/ BoxH(parts[i]) <= 0
         THEN [result |-> res, page_counter |-> counter, raised |-> TRUE]
         ELSE SavePartsOnce(parts, i + 1,
                            Append(res, [num |-> counter, scan |-> scan]),
                            counter, scan)

\* the save loop: each part is written as page_<page_counter>.jpg and
\* appended to result; writing an image without pixels as JPEG raises
RECURSIVE SaveParts(_, _, _, _, _)
SaveParts(parts, i, res, counter, scan) ==
    IF i > Len(parts) THEN [result |-> res, page_counter |-> counter, raised |-> FALSE]
    ELSE IF BoxW(parts[i]) <= 0 \/ BoxH(parts[i]) <= 0
         THEN [result |-> res, page_counter |-> counter, raised |-> TRUE]
         ELSE SaveParts(parts, i + 1,
                        Append(res, [num |-> counter, scan |-> scan]),
                        counter + 1, scan)

----------------------------------------------------------------------------
(* SpecSplit: split_pages *)

\* every scan of up to ScanMaxW x ScanMaxH pixels
ScanImages == StripeImages(1..ScanMaxW, 1..ScanMaxH)

\* two scans two pixels high: a flat page (the detector says single) and a
\* page with a dark column at its left edge (the detector says double)
BookScans ==
    { StripeImage(Len(col), 2, col) : col \in { <<1, 1>>, <<0, 1, 1>> } }

SeqsUpTo(S, n) == UNION { [1..k -> S] : k \in 0..n }

NoScan ==
    [scan |-> -1, w |-> 0, h |-> 0, heur |-> "none", splits |-> <<>>,
     type |-> "none", box |-> <<0, 0, 0, 0>>,
     parts |-> <<>>]

IdleSplit ==
    /\ split_pc = "idle"
    /\ input_paths = <<>>
    /\ override_map = <<>>
    /\ idx = 0
    /\ page_counter = 1
    /\ result = <<>>
    /\ split_log = <<>>
    /\ cur = NoScan

\* split_pages is called; nothing of its body has run
SplitCalled ==
    /\ IdleDetect
    /\ IdleOcr
    /\ IdleGate
    /\ IdleHead
    /\ IdleMd
    /\ IdleCli
    /\ IdleAll
    /\ split_pc = "start"
    /\ override_map = <<>>
    /\ idx = 0
    /\ page_counter = 1
    /\ result = <<>>
    /\ split_log = <<>>
    /\ cur = NoScan

\* the books split_pages is given: up to MaxScans scans
Books == SeqsUpTo(BookScans, MaxScans)

\* the default configuration with any list of rules
BookConfigs == { [DefaultConfig EXCEPT !.split_strategy = rl] : rl \in RuleLists }

\* a book of up to MaxScans scans, any list of rules, the default crop
InitSplit ==
    /\ config \in BookConfigs
    /\ input_paths \in Books
    /\ SplitCalled

\* no rule, or one rule for the first page
FirstPageRules ==
    { <<>> } \cup
    { << [page |-> IntPage(1), type |-> t] >> : t \in SplitTypes }

\* any crop percentage, no rule or one rule for the first page
CropConfigs ==
    { [DefaultConfig EXCEPT !.crop_pct = c, !.split_strategy = rl]
      : c \in CropPcts, rl \in FirstPageRules }

\* the books of one scan, of any size
OneScanBooks == [1..1 -> ScanImages]

\* one scan of any size, any crop percentage, at most one rule
InitCrop ==
    /\ config \in CropConfigs
    /\ input_paths \in OneScanBooks
    /\ SplitCalled

\* lines 127-134: everything before the loop
SplitStart ==
    /\ split_pc = "start"
    /\ split_pc' = "loop"
    /\ override_map' = _build_override_map(config.split_strategy)
    /\ result' = <<>>
    /\ page_counter' = 1
    /\ UNCHANGED <<allVars, config, cliVars, mdVars, headVars, detVars, ocrVars, gateVars, input_paths, idx, split_log, cur>>

\* lines 135-170: one iteration of the loop, for the scan img read from
\* input_paths[idx]
SplitScan ==
    /\ split_pc = "loop"
    /\ idx < Len(input_paths)
    /\ LET img        == input_paths[idx + 1]
           heur       == _detect_split_type(img)
           split_type == DictGet(override_map, idx, heur.type)
           box        == _crop_margins(img.w, img.h, config.crop_pct)
           cropFails  == box[3] < box[1] \/ box[4] < box[2]
           parts      == IF heur.raised \/ cropFails THEN <<>>
                         ELSE SplitParts(split_type, BoxW(box), BoxH(box))
           saved      == SaveParts(parts, 1, result, page_counter, idx)
           failed     == heur.raised \/ cropFails \/ saved.raised
       IN  /\ cur' = [scan |-> idx, w |-> img.w, h |-> img.h,
                      heur |-> heur.type, splits |-> heur.splits,
                      type |-> IF heur.raised THEN "none" ELSE split_type,
                      box |-> box, parts |-> parts]
           /\ split_log' = IF heur.raised THEN split_log
                           ELSE Append(split_log, split_type)
           /\ result' = saved.result
           /\ page_counter' = saved.page_counter
           /\ split_pc' = IF failed THEN "raised" ELSE "loop"
           /\ idx' = IF failed THEN idx ELSE idx + 1
    /\ UNCHANGED <<allVars, config, cliVars, mdVars, headVars, detVars, ocrVars, gateVars, input_paths, override_map>>

\* line 171: return result
SplitReturn ==
    /\ split_pc = "loop"
    /\ idx = Len(input_paths)
    /\ split_pc' = "done"
    /\ UNCHANGED <<allVars, config, cliVars, mdVars, headVars, detVars, ocrVars, gateVars, input_paths, override_map, idx, page_counter, result, split_log, cur>>

NextSplit == SplitStart \/ SplitScan \/ SplitReturn

SpecSplit == InitSplit /\ [][NextSplit]_vars

SpecCrop == InitCrop /\ [][NextSplit]_vars

\* the grey values of a row w wide that is light except for the dark
\* columns a..b (0-based)
GutterRow(w, a, b) ==
    [c \in 1..a |-> 1] \o [c \in 1..(b - a + 1) |-> 0] \o [c \in 1..(w - b - 1) |-> 1]

\* one 2000 x 1000 scan with a dark gutter somewhere in the columns
\* 990..1010, no rule, and no crop or the default crop
InitSpread ==
    /\ config \in { [DefaultConfig EXCEPT !.crop_pct = c] : c \in {0, DefaultConfig.crop_pct} }
    /\ \E a \in 995..1005, b \in 995..1005 :
          /\ a <= b
          /\ input_paths = << StripeImage(2000, 1000, GutterRow(2000, a, b)) >>
    /\ SplitCalled

SpecSpread == InitSpread /\ [][NextSplit]_vars

----------------------------------------------------------------------------
(* ocr.py: OcrResult, _run_psm, run_ocr *)

\* tess_psm values __post_init__ accepts: range(0, 14)
PsmRange == 0..13

\* one entry of data["conf"]: an integer, or a string
ConfInt(v) == [str |-> FALSE, val |-> v]
ConfStr(v) == [str |-> TRUE, val |-> v]

\* what the engine reports for one mode: the word confidences of
\* image_to_data and the plain text of image_to_string
EngineConfs ==
    { <<ConfStr(-1)>>, <<ConfInt(60), ConfInt(80)>>, <<ConfInt(80), ConfStr(-1)>>,
      <<ConfInt(-1), ConfInt(80)>> }

EngineTexts == { <<"a", "b">>, <<"a", "\n", "b", " ", "c", " ">> }

\* the engine raises in image_to_data, raises in image_to_string, or answers
EngineOutcomes ==
    { [kind |-> "data_raises"], [kind |-> "string_raises"] } \cup
    { [kind |-> "ok", conf |-> c, text |-> t] : c \in EngineConfs, t \in EngineTexts }

\* text.replace("\n", "")
RemoveNewlines(text) == SelectSeq(text, LAMBDA c : c # "\n")

IsSpace(c) == c \in {" ", "\n", "\t"}

\* str.strip()
RECURSIVE Strip(_)
Strip(text) ==
    IF text = <<>> THEN text
    ELSE IF IsSpace(Head(text)) THEN Strip(Tail(text))
    ELSE IF IsSpace(text[Len(text)]) THEN Strip(SubSeq(text, 1, Len(text) - 1))
    ELSE text

\* [int(c) for c in data.get("conf", []) if c != "-1"]: only an entry that
\* is the string "-1" is left out
ConfsKept(conf) ==
    LET kept == SelectSeq(conf, LAMBDA c : ~(c.str /\ c.val = -1))
    IN  [i \in 1..Len(kept) |-> kept[i].val]

\* float(np.mean(confs)) if confs else 0.0
MeanOrZero(confs) ==
    IF confs = <<>> THEN Rat(0, 1) ELSE Rat(SumSeq(confs), Len(confs))

\* a count that removes the newlines and strips nothing
_run_psm_no_strip(out, psm) ==
    [text      |-> out.text,
     avg_conf  |-> MeanOrZero(ConfsKept(out.conf)),
     used_psm  |-> psm,
     num_chars |-> Len(RemoveNewlines(out.text))]

\* the tuple _run_psm returns for an engine answer, as an OcrResult
_run_psm(out, psm) ==
    [text      |-> out.text,
     avg_conf  |-> MeanOrZero(ConfsKept(out.conf)),
     used_psm  |-> psm,
     num_chars |-> Len(Strip(RemoveNewlines(out.text)))]

\* a removal of duplicates that removes nothing
DedupKeepAll(psms) == psms

\* lines 59-64: remove duplicates while preserving order
RECURSIVE DedupFrom(_, _, _, _)
DedupFrom(psms, i, seen, unique) ==
    IF i > Len(psms) THEN unique
    ELSE IF psms[i] \notin seen
         THEN DedupFrom(psms, i + 1, seen \cup {psms[i]}, Append(unique, psms[i]))
         ELSE DedupFrom(psms, i + 1, seen, unique)

Dedup(psms) == DedupFrom(psms, 1, {}, <<>>)

\* a handler that covers the first engine call only
ExceptCatchesDataOnly(kind) == kind = "data_raises"

\* except Exception: both engine calls are inside the try block
ExceptCatches(kind) == kind \in {"data_raises", "string_raises"}

\* a comparison that puts the character count first
KeyLtCharsFirst(a, b) ==
    \/ a.num_chars < b.num_chars
    \/ a.num_chars = b.num_chars /\ RatLt(a.avg_conf, b.avg_conf)

\* Python's < on the sort keys (r.avg_conf, r.num_chars)
KeyLt(a, b) ==
    \/ RatLt(a.avg_conf, b.avg_conf)
    \/ a.avg_conf = b.avg_conf /\ a.num_chars < b.num_chars

\* list.sort(key=..., reverse=True): descending and stable, an element goes
\* behind every earlier element whose key is not smaller than its own
RECURSIVE InsertDesc(_, _)
InsertDesc(sorted, x) ==
    IF sorted = <<>> THEN <<x>>
    ELSE IF KeyLt(Head(sorted), x) THEN <<x>> \o sorted
    ELSE <<Head(sorted)>> \o InsertDesc(Tail(sorted), x)

RECURSIVE SortDescFrom(_, _, _)
SortDescFrom(list, i, sorted) ==
    IF i > Len(list) THEN sorted
    ELSE SortDescFrom(list, i + 1, InsertDesc(sorted, list[i]))

SortDesc(list) == SortDescFrom(list, 1, <<>>)

\* OcrResult("", 0.0, config.tess_psm, 0)
SyntheticResult(cfg) ==
    [text |-> <<>>, avg_conf |-> Rat(0, 1), used_psm |-> cfg.tess_psm, num_chars |-> 0]

\* lines 73-76: what run_ocr returns for the list of results
SelectResult(list, cfg) ==
    IF list = <<>> THEN SyntheticResult(cfg) ELSE SortDesc(list)[1]

\* a gate that also rejects the boundary values
is_low_quality_le(r, cfg) ==
    \/ ~RatLt(cfg.low_conf, r.avg_conf)
    \/ ~RatLt(cfg.min_chars, Rat(r.num_chars, 1))

\* OcrResult.is_low_quality
is_low_quality(r, cfg) ==
    \/ RatLt(r.avg_conf, cfg.low_conf)
    \/ RatLt(Rat(r.num_chars, 1), cfg.min_chars)

----------------------------------------------------------------------------
(* SpecOcr: run_ocr on one page image *)

InitOcr ==
    /\ config \in { [DefaultConfig EXCEPT !.tess_psm = p] : p \in PsmRange }
    /\ IdleDetect
    /\ IdleSplit
    /\ IdleGate
    /\ IdleHead
    /\ IdleMd
    /\ IdleCli
    /\ IdleAll
    /\ ocr_pc = "start"
    /\ unique_psms = <<>>
    /\ psm_i = 1
    /\ results = <<>>
    /\ attempts = <<>>
    /\ ocr_result = NoResult

\* lines 57-65: the list of modes
OcrStart ==
    /\ ocr_pc = "start"
    /\ ocr_pc' = "loop"
    /\ unique_psms' = Dedup(<<config.tess_psm, 6, 3, 4>>)
    /\ results' = <<>>
    /\ psm_i' = 1
    /\ UNCHANGED <<allVars, config, cliVars, mdVars, headVars, detVars, splitVars, gateVars, attempts, ocr_result>>

\* lines 66-71: one iteration of the loop; the engine's behaviour for the
\* mode is out
OcrTryMode ==
    /\ ocr_pc = "loop"
    /\ psm_i <= Len(unique_psms)
    /\ \E out \in EngineOutcomes :
         LET psm == unique_psms[psm_i]
         IN  /\ attempts' = Append(attempts,
                               [psm |-> psm, ok |-> out.kind = "ok",
                                conf |-> IF out.kind = "ok" THEN out.conf ELSE <<>>])
             /\ results' = IF out.kind = "ok"
                           THEN Append(results, _run_psm(out, psm))
                           ELSE results
             /\ ocr_pc' = IF out.kind = "ok" \/ ExceptCatches(out.kind)
                          THEN "loop" ELSE "raised"
             /\ psm_i' = psm_i + 1
    /\ UNCHANGED <<allVars, config, cliVars, mdVars, headVars, detVars, splitVars, gateVars, unique_psms, ocr_result>>

\* lines 73-76: the synthetic result, or the head of the sorted list
OcrSelect ==
    /\ ocr_pc = "loop"
    /\ psm_i > Len(unique_psms)
    /\ ocr_pc' = "done"
    /\ results' = SortDesc(results)
    /\ ocr_result' = SelectResult(results, config)
    /\ UNCHANGED <<allVars, config, cliVars, mdVars, headVars, detVars, splitVars, gateVars, unique_psms, psm_i, attempts>>

NextOcr == OcrStart \/ OcrTryMode \/ OcrSelect

SpecOcr == InitOcr /\ [][NextOcr]_vars

\* a base mode outside the fixed list (four modes tried) or in it (three)
InitOcrFair == InitOcr /\ config.tess_psm \in {0, 6}

\* run_ocr is sequential code: the call goes on as long as a step is left
SpecOcrFair == InitOcrFair /\ [][NextOcr]_vars /\ WF_vars(NextOcr)

----------------------------------------------------------------------------
(* SpecGate: is_low_quality applied to one OcrResult *)

GateConfs == { Rat(n, d) : n \in {-1, 0, 139, 140, 141}, d \in {1, 2} }
GateChars == 0..4

InitGate ==
    /\ config \in { [DefaultConfig EXCEPT !.low_conf = lc, !.min_chars = mc]
                    : lc \in {Rat(0, 1), Rat(70, 1)},
                      mc \in {Rat(0, 1), Rat(2, 1), Rat(4, 1)} }
    /\ IdleDetect
    /\ IdleSplit
    /\ IdleOcr
    /\ IdleHead
    /\ IdleMd
    /\ IdleCli
    /\ IdleAll
    /\ gate_pc = "ready"
    /\ gate_in \in [text : {<<>>}, avg_conf : GateConfs, used_psm : {6},
                    num_chars : GateChars]
    /\ low_quality = FALSE

Gate ==
    /\ gate_pc = "ready"
    /\ gate_pc' = "done"
    /\ low_quality' = is_low_quality(gate_in, config)
    /\ UNCHANGED <<allVars, config, cliVars, mdVars, headVars, detVars, splitVars, ocrVars, gate_in>>

NextGate == Gate

SpecGate == InitGate /\ [][NextGate]_vars

----------------------------------------------------------------------------
(* structure.py: LineInfo, _group_lines, detect_headings *)

\* most lines the engine reports for the page handed to detect_headings
MaxHeadLines == 4

\* one index of the lists of image_to_data(..., output_type=DICT)
Word(text, line_num, left, top, width, height, conf) ==
    [text |-> text, line_num |-> line_num, left |-> left, top |-> top,
     width |-> width, height |-> height, conf |-> conf]

\* the lines a page is made of: a body line of one word, a body line of two
\* words of unequal height, a large line 3 pixels from the top, a large line
\* 1 pixel from the top, a line of blank words, and one more word for the
\* line numbered 1
LineKinds == {"body", "pair", "title", "kicker", "blank", "more"}

\* the words the engine reports for a line of that kind numbered n
WordsOfKind(kind, n) ==
    CASE kind = "body"   -> << Word(<<"a">>, n, 0, 4 + n, 2, 3, ConfInt(90)) >>
      [] kind = "pair"   -> << Word(<<"a">>, n, 0, 5 + n, 2, 3, ConfInt(90)),
                               Word(<<"b">>, n, 3, 4 + n, 2, 4, ConfInt(80)) >>
      [] kind = "title"  -> << Word(<<"T">>, n, 0, 3, 2, 7, ConfInt(90)) >>
      [] kind = "kicker" -> << Word(<<"K">>, n, 0, 1, 2, 7, ConfInt(90)) >>
      [] kind = "blank"  -> << Word(<<" ">>, n, 0, 0, 2, 9, ConfInt(-1)),
                               Word(<<>>, n, 0, 0, 0, 9, ConfInt(-1)) >>
      [] kind = "more"   -> << Word(<<"c">>, 1, 6, 5, 2, 3, ConfInt(90)) >>

\* the engine's word list for a page whose lines are of these kinds
RECURSIVE PageWordsFrom(_, _)
PageWordsFrom(kinds, j) ==
    IF j > Len(kinds) THEN <<>>
    ELSE WordsOfKind(kinds[j], j) \o PageWordsFrom(kinds, j + 1)

PageWords(kinds) == PageWordsFrom(kinds, 1)

\* lines 34-39: the keys of the dict `lines`, in insertion order
RECURSIVE LineNumsFrom(_, _, _)
LineNumsFrom(data, i, keys) ==
    IF i > Len(data) THEN keys
    ELSE IF \E k \in 1..Len(keys) : keys[k] = data[i].line_num
         THEN LineNumsFrom(data, i + 1, keys)
         ELSE LineNumsFrom(data, i + 1, Append(keys, data[i].line_num))

LineNums(data) == LineNumsFrom(data, 1, <<>>)

\* lines[line_num]: the words of one line, in the order of the word list
WordsOfLine(data, n) == SelectSeq(data, LAMBDA w : w.line_num = n)

\* a test that finds no line blank
NeverBlank(words) == FALSE

\* line 43: not any(t.strip() for t in texts)
AllBlank(words) == \A i \in 1..Len(words) : Strip(words[i].text) = <<>>

\* " ".join(texts)
RECURSIVE JoinFrom(_, _)
JoinFrom(texts, i) ==
    IF i > Len(texts) THEN <<>>
    ELSE IF i = Len(texts) THEN texts[i]
    ELSE texts[i] \o <<" ">> \o JoinFrom(texts, i + 1)

Join(texts) == JoinFrom(texts, 1)

SeqMin(s) == CHOOSE v \in { s[i] : i \in DOMAIN s } : \A i \in DOMAIN s : v <= s[i]

\* line 50: every confidence that is not the string "-1", as a number
LineConfs(words) ==
    LET kept == SelectSeq(words, LAMBDA w : ~(w.conf.str /\ w.conf.val = -1))
    IN  [i \in 1..Len(kept) |-> kept[i].conf.val]

\* lines 45-61: the LineInfo of the words of one line.  statistics.mean of
\* integers is exact, int() truncates it toward zero.
LineInfoOf(words) ==
    LET n       == Len(words)
        lefts   == [i \in 1..n |-> words[i].left]
        tops    == [i \in 1..n |-> words[i].top]
        rights  == [i \in 1..n |-> words[i].left + words[i].width]
        heights == [i \in 1..n |-> words[i].height]
    IN  [text   |-> Strip(Join([i \in 1..n |-> words[i].text])),
         left   |-> SeqMin(lefts),
         top    |-> SeqMin(tops),
         width  |-> SeqMax(rights) - SeqMin(lefts),
         height |-> TruncDiv(SumSeq(heights), n),
         conf   |-> MeanOrZero(LineConfs(words))]

\* the line numbers of the lines _group_lines keeps, in their order
RetainedNums(data) ==
    SelectSeq(LineNums(data), LAMBDA n : ~AllBlank(WordsOfLine(data, n)))

_group_lines(data) ==
    LET nums == RetainedNums(data)
    IN  [k \in 1..Len(nums) |-> LineInfoOf(WordsOfLine(data, nums[k]))]

\* a test that leaves out the line exactly at the threshold
IsCandidateAbove(ln, med2) == 10 * ln.height > 7 * med2

\* line 81: ln.height >= 1.4 * median_h, with med2 twice the median.  The
\* double 1.4 lies below 14/10, and the product with a median that is a
\* multiple of 1/2 rounds to the exact product when that is an integer, so
\* the comparison with an integer height is the exact one.
IsCandidate(ln, med2) == 10 * ln.height >= 7 * med2

\* line 83: candidates.sort(key=lambda ln: ln.top), ascending and stable
RECURSIVE InsertByTop(_, _)
InsertByTop(sorted, x) ==
    IF sorted = <<>> THEN <<x>>
    ELSE IF x.top < Head(sorted).top THEN <<x>> \o sorted
    ELSE <<Head(sorted)>> \o InsertByTop(Tail(sorted), x)

RECURSIVE SortByTopFrom(_, _, _)
SortByTopFrom(list, i, sorted) ==
    IF i > Len(list) THEN sorted
    ELSE SortByTopFrom(list, i + 1, InsertByTop(sorted, list[i]))

\* lines 78-83: the candidates, sorted by top
Candidates(lines) ==
    LET med2 == Median2([i \in 1..Len(lines) |-> lines[i].height])
    IN  SortByTopFrom(SelectSeq(lines, LAMBDA ln : IsCandidate(ln, med2)), 1, <<>>)

\* list.index(x): the 0-based position of the first element equal to x;
\* two LineInfo are equal when all their fields are
ListIndex(list, x) ==
    (CHOOSE i \in 1..Len(list) :
        list[i] = x /\ \A j \in 1..(i - 1) : list[j] # x) - 1

\* lines 89-97: the tag of one line.  ln.top < 0.3 * page_h compares an
\* integer with the double nearest to 3/10 times an integer, which is never
\* above the exact product: the comparison is 10 * top < 3 * page_h.
TagOf(ln, candidates, page_h) ==
    IF \E i \in 1..Len(candidates) : candidates[i] = ln
    THEN LET idx0 == ListIndex(candidates, ln)
         IN  IF 10 * ln.top < 3 * page_h /\ idx0 = 0 THEN "H1"
             ELSE IF idx0 = 0 THEN "H2"
             ELSE "H3"
    ELSE "P"

\* a loop that emits the candidates in rank order, then the other lines
TagLinesRankFirst(lines, candidates, page_h) ==
    LET rest == SelectSeq(lines, LAMBDA ln : \A i \in 1..Len(candidates) : candidates[i] # ln)
        all  == candidates \o rest
    IN  [i \in 1..Len(all) |->
            [tag |-> TagOf(all[i], candidates, page_h), text |-> all[i].text]]

\* lines 84-99: one (tag, text) per line, in the order of lines
TagLines(lines, candidates, page_h) ==
    [i \in 1..Len(lines) |->
        [tag |-> TagOf(lines[i], candidates, page_h), text |-> lines[i].text]]

----------------------------------------------------------------------------
(* SpecHeadings: detect_headings on one page *)

\* the engine raises in image_to_data, or reports the words of a page of up
\* to MaxHeadLines lines; the page image is 10 or 20 pixels high
InitHead ==
    /\ config = DefaultConfig
    /\ IdleDetect
    /\ IdleSplit
    /\ IdleOcr
    /\ IdleGate
    /\ IdleMd
    /\ IdleCli
    /\ IdleAll
    /\ head_pc = "start"
    /\ \/ head_in = [kind |-> "raises", data |-> <<>>, page_h |-> 10]
       \/ \E kinds \in SeqsUpTo(LineKinds, MaxHeadLines), h \in {10, 20} :
             head_in = [kind |-> "ok", data |-> PageWords(kinds), page_h |-> h]
    /\ head_lines = <<>>
    /\ head_nums = <<>>
    /\ head_tags = <<>>

\* lines 73-76: the engine call, _group_lines, and the early return
HeadGroup ==
    /\ head_pc = "start"
    /\ IF head_in.kind = "raises"
       THEN /\ head_pc' = "raised"
            /\ UNCHANGED <<head_lines, head_nums, head_tags>>
       ELSE /\ head_lines' = _group_lines(head_in.data)
            /\ head_nums' = RetainedNums(head_in.data)
            /\ head_pc' = IF _group_lines(head_in.data) = <<>> THEN "done" ELSE "grouped"
            /\ head_tags' = <<>>
    /\ UNCHANGED <<allVars, config, cliVars, mdVars, detVars, splitVars, ocrVars, gateVars, head_in>>

\* lines 77-99: classification
HeadClassify ==
    /\ head_pc = "grouped"
    /\ head_pc' = "done"
    /\ head_tags' = TagLines(head_lines, Candidates(head_lines), head_in.page_h)
    /\ UNCHANGED <<allVars, config, cliVars, mdVars, detVars, splitVars, ocrVars, gateVars, head_in, head_lines, head_nums>>

NextHead == HeadGroup \/ HeadClassify

SpecHeadings == InitHead /\ [][NextHead]_vars

----------------------------------------------------------------------------
(* split.py, markdown.py: page files, PageCtx, build_markdown *)

\* the digits of page_{n:03d}.jpg
PadWidth == 3

MaxMdPages == 2

\* the decimal digits of n >= 0
RECURSIVE Digits(_)
Digits(n) == IF n < 10 THEN <<n>> ELSE Digits(n \div 10) \o <<n % 10>>

\* f"{n:03d}": padded with zeros to PadWidth digits, longer when n needs more
Format03d(n) ==
    LET d == Digits(n) IN [i \in 1..(PadWidth - Len(d)) |-> 0] \o d

\* the file name split_pages gives logical page n, as the character codes
\* of what follows "page_" up to the dot of ".jpg"; the rest is the same in
\* every name
PageName(n) ==
    LET d == Format03d(n) IN [i \in 1..Len(d) |-> 48 + d[i]] \o <<46>>

\* the page number a file name carries
RECURSIVE PageNumberFrom(_, _, _)
PageNumberFrom(name, i, acc) ==
    IF i > Len(name) \/ name[i] = 46 THEN acc
    ELSE PageNumberFrom(name, i + 1, 10 * acc + (name[i] - 48))

PageNumberOf(name) == PageNumberFrom(name, 1, 0)

\* Python's < on two strings: the first differing character decides, and a
\* proper prefix is smaller
RECURSIVE StrLtFrom(_, _, _)
StrLtFrom(a, b, i) ==
    IF i > Len(a) THEN i <= Len(b)
    ELSE IF i > Len(b) THEN FALSE
    ELSE IF a[i] # b[i] THEN a[i] < b[i]
    ELSE StrLtFrom(a, b, i + 1)

StrLt(a, b) == StrLtFrom(a, b, 1)

\* sorted(page_paths): paths of one directory compare by file name
SortedPaths(paths) == SortSeq(paths, LAMBDA x, y : StrLt(x.name, y.name))

\* what the engine does on a page file, mode by mode; words is what
\* image_to_data reports to detect_headings, page_h the height of the image
EngineFails == [p \in PsmRange |-> [kind |-> "data_raises"]]

EngineFailsLate ==
    [p \in PsmRange |-> IF p = 6 THEN [kind |-> "string_raises"] ELSE [kind |-> "data_raises"]]

EngineReads ==
    [p \in PsmRange |->
        IF p = 6
        THEN [kind |-> "ok", conf |-> <<ConfInt(60), ConfInt(80)>>,
              text |-> <<"a", " ", " ", "b", "\n", "\n", "\n", "c", " ">>,
              words |-> PageWords(<<"title", "pair", "body">>), page_h |-> 10]
        ELSE [kind |-> "data_raises"]]

EngineGuesses ==
    [p \in PsmRange |-> [kind |-> "ok", conf |-> <<ConfStr(-1)>>, text |-> <<"a", "b">>,
                         words |-> PageWords(<<"body">>), page_h |-> 10]]

\* a page file: what the engine does on it, and whether it can be copied
PageFiles ==
    [outs : {EngineFails, EngineFailsLate, EngineReads, EngineGuesses}, copy_ok : BOOLEAN]

\* the list split_pages returns for a book whose logical pages are files
PathsOf(files) ==
    [n \in 1..Len(files) |->
        [name |-> PageName(n), outs |-> files[n].outs, copy_ok |-> files[n].copy_ok]]

\* the file a path names
FileAt(paths, name) ==
    CHOOSE f \in { paths[i] : i \in DOMAIN paths } : f.name = name

\* the loop of run_ocr on a page whose engine behaviour is outs: the results
\* of the modes that answer, in the order tried
RunModes(outs, psms) ==
    LET answered == SelectSeq(psms, LAMBDA p : outs[p].kind = "ok")
    IN  [i \in 1..Len(answered) |-> _run_psm(outs[answered[i]], answered[i])]

ModeEscapes(outs, psms) ==
    \E i \in 1..Len(psms) : outs[psms[i]].kind # "ok" /\ ~ExceptCatches(outs[psms[i]].kind)

\* run_ocr as a function of what the engine does
run_ocr(outs, cfg) == SelectResult(RunModes(outs, Dedup(<<cfg.tess_psm, 6, 3, 4>>)), cfg)

PageCtx(index, img_path, text, avg_conf, chars) ==
    [index |-> index, img_path |-> img_path, text |-> text,
     avg_conf |-> avg_conf, chars |-> chars, split_tag |-> "1x1"]

\* float(x) of a number: the same number, exactly for the small values of
\* the model
float(x) == x

\* int(x) of a number: x without its fraction, rounded towards zero
int(x) == TruncDiv(x.num, x.den)

\* avg_conf >= float(low_conf) and chars >= int(min_chars)
_allow_text(avg_conf, chars, cfg) ==
    ~RatLt(avg_conf, float(cfg.low_conf)) /\ chars >= int(cfg.min_chars)

\* re.sub(r"[ \t]+", " ", s)
RECURSIVE CollapseBlanks(_, _)
CollapseBlanks(s, out) ==
    IF s = <<>> THEN out
    ELSE IF Head(s) \in {" ", "\t"}
         THEN IF out # <<>> /\ out[Len(out)] = " "
              THEN CollapseBlanks(Tail(s), out)
              ELSE CollapseBlanks(Tail(s), Append(out, " "))
         ELSE CollapseBlanks(Tail(s), Append(out, Head(s)))

\* re.sub(r"\n{3,}", "\n\n", s)
RECURSIVE CollapseNewlines(_, _)
CollapseNewlines(s, out) ==
    IF s = <<>> THEN out
    ELSE IF /\ Head(s) = "\n"
            /\ Len(out) >= 2
            /\ out[Len(out)] = "\n"
            /\ out[Len(out) - 1] = "\n"
         THEN CollapseNewlines(Tail(s), out)
         ELSE CollapseNewlines(Tail(s), Append(out, Head(s)))

\* cleanup_text on texts without hyphens, carriage returns, doubled short
\* words or an entry of the replacement tables: steps 0 and 6
cleanup_text(text) == Strip(CollapseNewlines(CollapseBlanks(text, <<>>), <<>>))

\* one line of the document; page is the index of the page section the line
\* belongs to, 0 for the front matter
Line(kind, page, text) == [kind |-> kind, page |-> page, text |-> text]

\* the three lines render_text_only writes for a page
TextSection(p, cfg) ==
    << Line("heading", p.index, <<>>),
       IF _allow_text(p.avg_conf, p.chars, cfg) /\ Strip(p.text) # <<>>
       THEN Line("text", p.index, cleanup_text(p.text))
       ELSE Line("filtered", p.index, <<>>),
       Line("blank", p.index, <<>>) >>

\* the three lines render_with_images writes for a page
ImageSection(p, paths) ==
    << Line("heading", p.index, <<>>),
       IF FileAt(paths, p.img_path).copy_ok
       THEN Line("image", p.index, p.img_path)
       ELSE Line("missing", p.index, p.img_path),
       Line("blank", p.index, <<>>) >>

render_text_only(cfg, ctxs) ==
    << Line("title", 0, <<>>), Line("blank", 0, <<>>),
       Line("meta", 0, <<>>), Line("blank", 0, <<>>) >> \o
    [k \in 1..(3 * Len(ctxs)) |-> TextSection(ctxs[(k - 1) \div 3 + 1], cfg)[((k - 1) % 3) + 1]]

render_with_images(cfg, ctxs, paths) ==
    << Line("title", 0, <<>>), Line("blank", 0, <<>>),
       Line("note", 0, <<>>), Line("blank", 0, <<>>) >> \o
    [k \in 1..(3 * Len(ctxs)) |-> ImageSection(ctxs[(k - 1) \div 3 + 1], paths)[((k - 1) % 3) + 1]]

EmbedModes == {"auto", "all", "none"}

MdCalled ==
    /\ IdleDetect
    /\ IdleSplit
    /\ IdleOcr
    /\ IdleGate
    /\ IdleHead
    /\ IdleCli
    /\ IdleAll
    /\ md_pc = "start"
    /\ md_sorted = <<>>
    /\ pages = <<>>
    /\ md_lines = <<>>

\* a min_chars the short texts pass, one between two lengths, the default
MdMinChars == {Rat(2, 1), Rat(11, 2), DefaultConfig.min_chars}

\* SpecMarkdown: books of up to MaxMdPages pages, every embedding mode, the
\* default low_conf and the thresholds of MdMinChars
InitMarkdown ==
    /\ config \in { [DefaultConfig EXCEPT !.embed_images = e, !.min_chars = m] :
                        e \in EmbedModes, m \in MdMinChars }
    /\ \E files \in SeqsUpTo(PageFiles, MaxMdPages) : page_paths = PathsOf(files)
    /\ MdCalled

\* the number of pages of the books of SpecBook
BookSizes == {3, 1000}

\* SpecBook: long books of readable pages
InitBook ==
    /\ config \in { [DefaultConfig EXCEPT !.embed_images = e] : e \in {"auto", "all"} }
    /\ \E n \in BookSizes :
          page_paths = PathsOf([k \in 1..n |-> [outs |-> EngineGuesses, copy_ok |-> TRUE]])
    /\ MdCalled

\* line 279: sorted(page_paths)
MdStart ==
    /\ md_pc = "start"
    /\ md_pc' = "loop"
    /\ md_sorted' = SortedPaths(page_paths)
    /\ pages' = <<>>
    /\ UNCHANGED <<allVars, config, cliVars, detVars, splitVars, ocrVars, gateVars, headVars, page_paths, md_lines>>

\* lines 279-288: one iteration of the loop
MdPage ==
    /\ md_pc = "loop"
    /\ Len(pages) < Len(md_sorted)
    /\ LET i        == Len(pages) + 1
           img_path == md_sorted[i]
       IN  IF config.embed_images = "all"
           THEN /\ pages' = Append(pages, PageCtx(i, img_path.name, <<>>, Rat(0, 1), 0))
                /\ md_pc' = "loop"
           ELSE IF ModeEscapes(img_path.outs, Dedup(<<config.tess_psm, 6, 3, 4>>))
           THEN /\ md_pc' = "raised"
                /\ pages' = pages
           ELSE LET ocr_res == run_ocr(img_path.outs, config)
                IN  /\ pages' = Append(pages, PageCtx(i, img_path.name, ocr_res.text,
                                                      ocr_res.avg_conf, ocr_res.num_chars))
                    /\ md_pc' = "loop"
    /\ UNCHANGED <<allVars, config, cliVars, detVars, splitVars, ocrVars, gateVars, headVars, page_paths, md_sorted, md_lines>>

\* lines 290-296: the renderer the mode selects
MdRender ==
    /\ md_pc = "loop"
    /\ Len(pages) = Len(md_sorted)
    /\ md_pc' = "done"
    /\ md_lines' = IF config.embed_images = "all"
                   THEN render_with_images(config, pages, md_sorted)
                   ELSE render_text_only(config, pages)
    /\ UNCHANGED <<allVars, config, cliVars, detVars, splitVars, ocrVars, gateVars, headVars, page_paths, md_sorted, pages>>

NextMd == MdStart \/ MdPage \/ MdRender

SpecMarkdown == InitMarkdown /\ [][NextMd]_vars

SpecBook == InitBook /\ [][NextMd]_vars

----------------------------------------------------------------------------
(* config.py, cli.py: OcrConfig, load_config, cmd_ocr *)

MaxCliPages == 2

\* the fields of OcrConfig; the first two have no default
FieldNames ==
    {"book_title", "pdf_file", "lang", "dpi", "preprocess", "tess_psm",
     "embed_images", "crop_pct", "low_conf", "min_chars", "split_strategy"}

RequiredFields == {"book_title", "pdf_file"}

Profiles == {"pil_gray", "pil_bin", "opencv"}

\* Path(s) for a string given as its components between slashes: empty
\* components and "." components disappear
PathOf(str) == [parts |-> SelectSeq(str, LAMBDA c : c \notin {"", "."})]

SplitRule(page, type) == [page |-> page, type |-> type]

\* a loader that files the rules in reverse
RulesReversed(data) ==
    LET entries == IF "split_strategy" \in DOMAIN data THEN data.split_strategy ELSE <<>>
    IN  [i \in 1..Len(entries) |->
            SplitRule(entries[Len(entries) + 1 - i].page, entries[Len(entries) + 1 - i].type)]

\* lines 94-97: one SplitRule per entry of data.get("split_strategy", [])
RulesOf(data) ==
    LET entries == IF "split_strategy" \in DOMAIN data THEN data.split_strategy ELSE <<>>
    IN  [i \in 1..Len(entries) |-> SplitRule(entries[i].page, entries[i].type)]

\* entry["page"] or entry["type"] raises KeyError
EntryLacksKey(data) ==
    /\ "split_strategy" \in DOMAIN data
    /\ \E i \in 1..Len(data.split_strategy) :
          ~({"page", "type"} \subseteq DOMAIN data.split_strategy[i])

\* the generated __init__ of the dataclass raises TypeError on an unknown
\* keyword and on a missing field that has no default
InitRejects(kwargs) ==
    \/ ~(DOMAIN kwargs \subseteq FieldNames)
    \/ ~(RequiredFields \subseteq DOMAIN kwargs)

\* the generated __init__: the keyword, or the default of the field
InitFields(kwargs) ==
    [f \in FieldNames |-> IF f \in DOMAIN kwargs THEN kwargs[f] ELSE DefaultConfig[f]]

\* the checks of __post_init__ that raise ValueError
PostInitRejects(self) ==
    \/ self.preprocess \notin Profiles
    \/ self.embed_images \notin EmbedModes
    \/ self.tess_psm \notin PsmRange
    \/ \E i \in 1..Len(self.split_strategy) : self.split_strategy[i].type \notin SplitTypes

\* __post_init__ on the string pdf_file of a YAML file
__post_init__(self) == [self EXCEPT !.pdf_file = PathOf(self.pdf_file)]

\* load_config: the OcrConfig returned, or raised
load_config(data) ==
    IF EntryLacksKey(data) THEN [raised |-> TRUE]
    ELSE LET kwargs == [k \in DOMAIN data \cup {"split_strategy"} |->
                           IF k = "split_strategy" THEN RulesOf(data) ELSE data[k]]
         IN  IF InitRejects(kwargs) THEN [raised |-> TRUE]
             ELSE IF PostInitRejects(InitFields(kwargs)) THEN [raised |-> TRUE]
             ELSE [raised |-> FALSE, config |-> __post_init__(InitFields(kwargs))]

\* the split_strategy lists of the YAML files: valid ones, one with an
\* unknown type, one whose entry has no type
YamlStrategies ==
    { <<>>,
      << [page |-> IntPage(1), type |-> "single"] >>,
      << [page |-> IntPage(1), type |-> "single"], [page |-> RangePage(2, 4), type |-> "double"] >>,
      << [page |-> RangePage(2, 4), type |-> "double"], [page |-> IntPage(1), type |-> "single"] >>,
      << [page |-> IntPage(1), type |-> "single"], [page |-> IntPage(2), type |-> "triple"] >>,
      << [page |-> IntPage(3)] >> }

\* a key that is absent, or present with one of the values
Optional(key, values) == { <<>> } \cup { key :> v : v \in values }

\* the YAML files: any of the keys of OcrConfig and an unknown key, each
\* present or absent

YamlFiles ==
    { t @@ f @@ pp @@ psm @@ em @@ cr @@ st @@ x :
        t   \in Optional("book_title", { <<"T", " ", "b">> }),
        f   \in { "pdf_file" :> <<"input", "", "test.pdf">> },
        pp  \in Optional("preprocess", {"pil_bin", "sharp"}),
        psm \in Optional("tess_psm", {4, 14}),
        em  \in Optional("embed_images", {"all"}),
        cr  \in Optional("crop_pct", {10}),
        st  \in Optional("split_strategy", YamlStrategies),
        x   \in Optional("title", {"x"}) }

\* the command lines of cmd_ocr: --preprocess is one of the three choices,
\* --tess-psm any integer, --crop-pct any number; pages is the number of page
\* files selected
ArgsOfOcr ==
    [preprocess : {None, Some("opencv")},
     tess_psm   : {None, Some(3), Some(14), Some(-1)},
     crop_pct   : {None, Some(20)},
     pages      : 0..MaxCliPages]

\* config before load_config has returned
NoConfig == [loaded |-> FALSE]

InitCli ==
    /\ config = NoConfig
    /\ IdleDetect
    /\ IdleSplit
    /\ IdleOcr
    /\ IdleGate
    /\ IdleHead
    /\ IdleMd
    /\ IdleAll
    /\ cli_pc = "start"
    /\ yaml_data \in YamlFiles
    /\ args \in ArgsOfOcr
    /\ ocr_calls = <<>>

\* cli.py line 49: config = load_config(args.config)
LoadConfig ==
    /\ cli_pc = "start"
    /\ LET res == load_config(yaml_data)
       IN  IF res.raised
           THEN cli_pc' = "raised" /\ config' = config
           ELSE cli_pc' = "loaded" /\ config' = res.config
    /\ UNCHANGED <<allVars, detVars, splitVars, ocrVars, gateVars, headVars, mdVars, yaml_data, args, ocr_calls>>

\* cli.py lines 58-65: the command-line overrides
CmdOcrOverride ==
    /\ cli_pc = "loaded"
    /\ cli_pc' = "loop"
    /\ config' = [config EXCEPT
                    !.preprocess = IF args.preprocess.some THEN args.preprocess.val ELSE @,
                    !.tess_psm   = IF args.tess_psm.some THEN args.tess_psm.val ELSE @,
                    !.crop_pct   = IF args.crop_pct.some THEN args.crop_pct.val ELSE @]
    /\ ocr_calls' = <<>>
    /\ UNCHANGED <<allVars, detVars, splitVars, ocrVars, gateVars, headVars, mdVars, yaml_data, args>>

\* cli.py lines 66-73: one page; preprocess raises ValueError on an unknown
\* profile, and run_ocr is handed the configuration
CmdOcrPage ==
    /\ cli_pc = "loop"
    /\ Len(ocr_calls) < args.pages
    /\ IF config.preprocess \notin Profiles
       THEN cli_pc' = "raised" /\ ocr_calls' = ocr_calls
       ELSE /\ cli_pc' = "loop"
            /\ ocr_calls' = Append(ocr_calls,
                               [page |-> Len(ocr_calls) + 1, preprocess |-> config.preprocess,
                                crop_pct |-> config.crop_pct, tess_psm |-> config.tess_psm])
    /\ UNCHANGED <<allVars, config, detVars, splitVars, ocrVars, gateVars, headVars, mdVars, yaml_data, args>>

\* cli.py lines 74-76: the report
CmdOcrReport ==
    /\ cli_pc = "loop"
    /\ Len(ocr_calls) = args.pages
    /\ cli_pc' = "done"
    /\ UNCHANGED <<allVars, config, detVars, splitVars, ocrVars, gateVars, headVars, mdVars, yaml_data, args, ocr_calls>>

NextCli == LoadConfig \/ CmdOcrOverride \/ CmdOcrPage \/ CmdOcrReport

SpecCli == InitCli /\ [][NextCli]_vars

----------------------------------------------------------------------------
(* cmd_all: the four stages on one PDF of one scan.  Strings are sequences *)
(* of characters.                                                          *)

\* longest book_title of the model
MaxTitle == 3

\* the characters of a title: an upper-case letter, a lower-case letter, a
\* space, a punctuation mark
TitleChars == {"A", "b", " ", "!"}

Titles == SeqsUpTo(TitleChars, MaxTitle)

\* the file names of the PDF: "b.p" and "A b.p"
PdfNames == { <<"b", ".", "p">>, <<"A", " ", "b", ".", "p">> }

\* str.lower()
LowerChar(c) == IF c = "A" THEN "a" ELSE c

Lower(str) == [i \in 1..Len(str) |-> LowerChar(str[i])]

\* str.replace(" ", "_")
SpacesToUnderscores(str) == [i \in 1..Len(str) |-> IF str[i] = " " THEN "_" ELSE str[i]]

\* the characters the patterns of the slug functions keep
LowerAlnum == {"a", "b"}

Alnum == {"A", "a", "b"}

\* re.sub(r"[^a-z0-9_]+", "", name)
DropNonSlug(str) == SelectSeq(str, LAMBDA c : c \in LowerAlnum \cup {"_"})

\* re.sub(r"[^a-zA-Z0-9]+", "_", title): every run of other characters
\* becomes one underscore
RECURSIVE RunsToUnderscore(_, _, _)
RunsToUnderscore(str, inRun, out) ==
    IF str = <<>> THEN out
    ELSE IF Head(str) \in Alnum
         THEN RunsToUnderscore(Tail(str), FALSE, Append(out, Head(str)))
         ELSE IF inRun THEN RunsToUnderscore(Tail(str), TRUE, out)
              ELSE RunsToUnderscore(Tail(str), TRUE, Append(out, "_"))

\* str.strip("_")
RECURSIVE StripUnderscores(_)
StripUnderscores(str) ==
    IF str = <<>> THEN str
    ELSE IF Head(str) = "_" THEN StripUnderscores(Tail(str))
    ELSE IF str[Len(str)] = "_" THEN StripUnderscores(SubSeq(str, 1, Len(str) - 1))
    ELSE str

\* Path.stem: the last component without its suffix
Stem(path) ==
    LET name == path.parts[Len(path.parts)]
        dots == { i \in 2..(Len(name) - 1) : name[i] = "." }
    IN  IF dots = {} THEN name
        ELSE SubSeq(name, 1, (CHOOSE i \in dots : \A j \in dots : j <= i) - 1)

\* pdf.py lines 44-49
_slugify(name) ==
    LET kept == DropNonSlug(SpacesToUnderscores(Strip(Lower(name))))
    IN  IF kept = <<>> THEN <<"d", "o", "c", "u", "m", "e", "n", "t">> ELSE kept

\* pdf.py line 69: the slug of extract_pages
SlugOfExtract(cfg) ==
    IF cfg.book_title # <<>> THEN _slugify(cfg.book_title) ELSE _slugify(Stem(cfg.pdf_file))

\* split.py line 127 and cli.py lines 42, 51, 82: the slug of split_pages,
\* cmd_split, cmd_ocr and cmd_md
SlugOfStage(cfg) ==
    IF cfg.book_title # <<>> THEN SpacesToUnderscores(Lower(cfg.book_title))
    ELSE Stem(cfg.pdf_file)

\* markdown.py lines 153-159
_slug_from_cfg(cfg) ==
    LET title == Strip(cfg.book_title)
    IN  IF title # <<>>
        THEN LET str == Lower(StripUnderscores(RunsToUnderscore(title, FALSE, <<>>)))
             IN  IF str = <<>> THEN <<"b", "o", "o", "k">> ELSE str
        ELSE Stem(cfg.pdf_file)

\* preprocess.py lines 31-35 and 65-69: the part of an image, given as a
\* box of the scan, that is left of it before the filters
MarginCrop(box, crop_pct) ==
    IF crop_pct > 0
    THEN LET dx == TruncDiv(BoxW(box) * crop_pct, 100)
             dy == TruncDiv(BoxH(box) * crop_pct, 100)
         IN  <<box[1] + dx, box[2] + dy, box[3] - dx, box[4] - dy>>
    ELSE box

\* preprocess.py lines 94-112: the profiles differ in their filters, not in
\* the crop
preprocess(box, profile, crop_pct) ==
    IF profile \in Profiles THEN [raised |-> FALSE, box |-> MarginCrop(box, crop_pct)]
    ELSE [raised |-> TRUE]

\* the scans of the PDF: one page wide or two, cut in one or in two
AllScans == [w : {10, 40}, h : {20}, type : {"single", "double"}]

\* crop_pct in hundredths
AllCropPcts == {0, 5, 10}

AllConfigs ==
    { ("book_title" :> t) @@ ("pdf_file" :> [parts |-> <<f>>]) @@
      [DefaultConfig EXCEPT !.crop_pct = c, !.preprocess = p, !.embed_images = e] :
        t \in Titles, f \in PdfNames, c \in AllCropPcts,
        p \in {"pil_gray", "opencv"}, e \in {"auto", "all"} }

InitAll ==
    /\ config \in AllConfigs
    /\ IdleDetect
    /\ IdleSplit
    /\ IdleOcr
    /\ IdleGate
    /\ IdleHead
    /\ IdleMd
    /\ IdleCli
    /\ all_pc = "start"
    /\ all_in \in AllScans
    /\ dirs = <<>>
    /\ all_pages = <<>>
    /\ handed = <<>>

\* the images a stage hands to run_ocr, one per page file
HandedBy(stage, cfg, boxes) ==
    [i \in 1..Len(boxes) |->
        [stage |-> stage, page |-> i, box |-> preprocess(boxes[i], cfg.preprocess, cfg.crop_pct).box]]

\* cli.py line 91: extract_pages writes <slug>/raw_pages
AllExtract ==
    /\ all_pc = "start"
    /\ all_pc' = "extracted"
    /\ dirs' = Append(dirs, [stage |-> "extract_pages", slug |-> SlugOfExtract(config)])
    /\ UNCHANGED <<config, detVars, splitVars, ocrVars, gateVars, headVars, mdVars, cliVars,
                   all_in, all_pages, handed>>

\* cli.py line 92: split_pages crops the margins of the scan, cuts it and
\* writes the parts to <slug>/split_pages
AllSplit ==
    /\ all_pc = "extracted"
    /\ all_pc' = "split"
    /\ LET box   == _crop_margins(all_in.w, all_in.h, config.crop_pct)
           parts == SplitParts(all_in.type, BoxW(box), BoxH(box))
       IN  all_pages' = [i \in 1..Len(parts) |->
                            <<box[1] + parts[i][1], box[2] + parts[i][2],
                              box[1] + parts[i][3], box[2] + parts[i][4]>>]
    /\ dirs' = Append(dirs, [stage |-> "split_pages", slug |-> SlugOfStage(config)])
    /\ UNCHANGED <<config, detVars, splitVars, ocrVars, gateVars, headVars, mdVars, cliVars,
                   all_in, handed>>

\* cli.py lines 94-103: cmd_ocr without overrides reads <slug>/split_pages,
\* which is the directory split_pages wrote, and runs OCR on every page
AllOcr ==
    /\ all_pc = "split"
    /\ all_pc' = "ocr"
    /\ dirs' = Append(dirs, [stage |-> "cmd_ocr", slug |-> SlugOfStage(config)])
    /\ handed' = handed \o HandedBy("cmd_ocr", config, all_pages)
    /\ UNCHANGED <<config, detVars, splitVars, ocrVars, gateVars, headVars, mdVars, cliVars,
                   all_in, all_pages>>

\* cli.py line 104: build_markdown is handed the list of split_pages, runs
\* OCR on every page unless embed_images is all, and writes <slug>/markdown
AllMd ==
    /\ all_pc = "ocr"
    /\ all_pc' = "done"
    /\ dirs' = Append(dirs, [stage |-> "build_markdown", slug |-> _slug_from_cfg(config)])
    /\ handed' = IF config.embed_images = "all" THEN handed
                 ELSE handed \o HandedBy("build_markdown", config, all_pages)
    /\ UNCHANGED <<config, detVars, splitVars, ocrVars, gateVars, headVars, mdVars, cliVars,
                   all_in, all_pages>>

NextAll == AllExtract \/ AllSplit \/ AllOcr \/ AllMd

SpecAll == InitAll /\ [][NextAll]_vars

----------------------------------------------------------------------------
(* Properties of split_pages and of the detector *)

\* the 1-based page p lies inside the range of the rule (a single page n,
\* or an inclusive range "a-b")
RuleCovers(rule, p) ==
    IF rule.page.kind = "int" THEN p = rule.page.a
    ELSE rule.page.a <= p /\ p <= rule.page.b

CoveringRules(p) ==
    { i \in 1..Len(config.split_strategy) : RuleCovers(config.split_strategy[i], p) }

MinOf(S) == CHOOSE x \in S : \A y \in S : x <= y

\* the last iteration got as far as choosing a layout type
CurSplit == cur.scan >= 0 /\ cur.type # "none"

\* C1: a scan whose 1-based index lies inside the range of a configured rule
\* is split with the type of a rule covering it, whatever the heuristic
\* returned for the image; a scan covered by no rule is split with the
\* heuristic's type.
C1_OverrideWins ==
    CurSplit =>
        LET cov == CoveringRules(cur.scan + 1)
        IN  /\ cov # {} =>
                 cur.type \in { config.split_strategy[i].type : i \in cov }
            /\ cov = {} => cur.type = cur.heur
            /\ split_log[Len(split_log)] = cur.type
            /\ cur.parts # <<>> =>
                 Len(cur.parts) = (CASE cur.type = "single" -> 1
                                     [] cur.type = "double" -> 2
                                     [] OTHER -> 4)

\* C1 witness: a covered scan was split with the rule's type although the
\* heuristic returned another type for its image.
C1_Witness ==
    /\ CurSplit
    /\ split_pc = "loop"
    /\ Cardinality(CoveringRules(cur.scan + 1)) = 1
    /\ cur.heur = "double"
    /\ cur.type = "quadruple"
    /\ Len(cur.parts) = 4

\* C2: when several rules cover a page, the first of them in configuration
\* order determines the layout type.
C2_FirstRuleWins ==
    (CurSplit /\ CoveringRules(cur.scan + 1) # {}) =>
        cur.type = config.split_strategy[MinOf(CoveringRules(cur.scan + 1))].type

PagesOfType(t) ==
    CASE t = "single" -> 1 [] t = "double" -> 2 [] t = "quadruple" -> 4

PagesOfScan(i) == { k \in 1..Len(result) : result[k].scan = i }

\* C6: every scan split so far produced exactly 1, 2 or 4 pages according to
\* its layout type, the k-th page written carries number k, and the pages
\* of one scan are numbered contiguously, scan after scan.
C6_ContiguousNumbering ==
    /\ \A k \in 1..Len(result) : result[k].num = k
    /\ \A i \in 0..(idx - 1) :
          /\ split_log[i + 1] \in SplitTypes
          /\ Cardinality(PagesOfScan(i)) = PagesOfType(split_log[i + 1])
          /\ \A k, l \in PagesOfScan(i) : \A m \in k..l : m \in PagesOfScan(i)
    /\ \A k, l \in 1..Len(result) : k < l => result[k].scan <= result[l].scan
    /\ split_pc = "done" => \A k \in 1..Len(result) : result[k].scan < Len(input_paths)

\* C6 witness: split_pages returned after a single, then a quadruple scan.
C6_Witness ==
    /\ split_pc = "done"
    /\ split_log = <<"single", "quadruple">>
    /\ Len(result) = 5
    /\ result[5] = [num |-> 5, scan |-> 1]

InBox(x, y, box) == box[1] <= x /\ x < box[3] /\ box[2] <= y /\ y < box[4]

\* C7: the parts cut out of the cropped W x H image are the whole image
\* (single), left then right of x = W div 2 (double), or the four quadrants
\* around (W div 2, H div 2) in the order top-left, top-right, bottom-left,
\* bottom-right (quadruple); they are pairwise disjoint and cover the
\* cropped image, wherever the detector saw its gutters.
C7_MidpointSplit ==
    (CurSplit /\ cur.parts # <<>>) =>
        LET W  == BoxW(cur.box)
            H  == BoxH(cur.box)
            mx == W \div 2
            my == H \div 2
            P  == cur.parts
        IN  /\ cur.type = "single" => P = << <<0, 0, W, H>> >>
            /\ cur.type = "double" =>
                 P = << <<0, 0, mx, H>>, <<mx, 0, W, H>> >>
            /\ cur.type = "quadruple" =>
                 P = << <<0, 0, mx, my>>, <<mx, 0, W, my>>,
                        <<0, my, mx, H>>, <<mx, my, W, H>> >>
            /\ \A x \in 0..(W - 1) : \A y \in 0..(H - 1) :
                 Cardinality({ i \in 1..Len(P) : InBox(x, y, P[i]) }) = 1
            /\ \A i \in 1..Len(P) :
                 /\ 0 <= P[i][1] /\ P[i][1] <= P[i][3] /\ P[i][3] <= W
                 /\ 0 <= P[i][2] /\ P[i][2] <= P[i][4] /\ P[i][4] <= H
            /\ split_pc # "raised" =>
                 Cardinality(PagesOfScan(cur.scan)) = Len(P)

\* C7 witness: a scan in which the detector found one gutter away from the
\* midpoint was cut in two at the midpoint of the cropped image.
C7_Witness ==
    /\ CurSplit
    /\ split_pc = "loop"
    /\ cur.heur = "double"
    /\ cur.type = "double"
    /\ Len(cur.splits) = 1
    /\ cur.splits[1] # BoxW(cur.box) \div 2
    /\ cur.parts = << <<0, 0, 1, 2>>, <<1, 0, 3, 2>> >>

\* the sizes of the pages cut out of the last scan
PageSizes == [i \in 1..Len(cur.parts) |-> <<BoxW(cur.parts[i]), BoxH(cur.parts[i])>>]

\* the columns of the uncropped scan at which a page ends and the next one
\* of the same row of pages begins
CutColumns ==
    { cur.box[1] + cur.parts[i][3] : i \in { k \in 1..Len(cur.parts) : cur.parts[k][1] = 0 } }

\* C18 as stated: with no rule configured, a 2000 x 1000 scan with one
\* gutter group centred at column 1000 is classified double and gives
\* exactly two pages of 1000 x 1000, cut at column 1000.
C18_TwoPagesOf1000 ==
    ( /\ CurSplit
      /\ config.split_strategy = <<>>
      /\ cur.w = 2000 /\ cur.h = 1000
      /\ cur.splits = <<1000>> ) =>
        /\ cur.type = "double"
        /\ split_pc # "raised"
        /\ Len(result) = 2
        /\ PageSizes = << <<1000, 1000>>, <<1000, 1000>> >>
        /\ CutColumns = {1000}

\* C18 amended: with no rule configured and crop_pct = 0, a 2000 x 1000
\* scan with one gutter group is classified double and gives exactly two
\* pages of 1000 x 1000, cut at column 1000, wherever the detected gutter
\* column lies.
C18_TwoPagesOf1000Uncropped ==
    ( /\ CurSplit
      /\ config.split_strategy = <<>>
      /\ config.crop_pct = 0
      /\ cur.w = 2000 /\ cur.h = 1000
      /\ Len(cur.splits) = 1 ) =>
        /\ cur.type = "double"
        /\ cur.heur = "double"
        /\ split_pc # "raised"
        /\ Len(result) = 2
        /\ PageSizes = << <<1000, 1000>>, <<1000, 1000>> >>
        /\ CutColumns = {1000}

\* C18 witness: an uncropped 2000 x 1000 scan whose gutter group is centred
\* at column 1000 gave two pages of 1000 x 1000.
C18_Witness ==
    /\ CurSplit
    /\ split_pc = "loop"
    /\ config.crop_pct = 0
    /\ cur.w = 2000 /\ cur.h = 1000
    /\ cur.splits = <<1000>>
    /\ cur.parts = << <<0, 0, 1000, 1000>>, <<1000, 0, 2000, 1000>> >>
    /\ Len(result) = 2

\* C9: for every crop percentage the cropped region has strictly positive
\* width and height and lies inside the original image, and a percentage
\* outside [0, 0.5) leaves the image uncropped.
C9_CropClamped ==
    CurSplit =>
        /\ 0 <= cur.box[1] /\ cur.box[1] < cur.box[3] /\ cur.box[3] <= cur.w
        /\ 0 <= cur.box[2] /\ cur.box[2] < cur.box[4] /\ cur.box[4] <= cur.h
        /\ (config.crop_pct < 0 \/ config.crop_pct >= 50) =>
              cur.box = <<0, 0, cur.w, cur.h>>

\* C8: for a flat image (all pixels equal, all-black included) and for an
\* empty image the detector returns "single" and does not raise.
C8_DegenerateIsSingle ==
    (det_out # NotCalled /\ (IsFlat(det_img) \/ IsEmpty(det_img))) =>
        (~det_out.raised /\ det_out.type = "single")

----------------------------------------------------------------------------
(* Properties of run_ocr and of the quality gate *)

ResultSet == { results[i] : i \in 1..Len(results) }

Permuted(list, f) == [i \in 1..Len(list) |-> list[f[i]]]

\* C3: the result run_ocr returns is one of the candidates of the modes
\* that succeeded, and no candidate has a higher average confidence, nor the
\* same confidence and more characters; whatever the order of the
\* candidates, the selection has the same confidence and character count.
C3_MaximalCandidate ==
    (ocr_pc = "done" /\ results # <<>>) =>
        /\ ocr_result \in ResultSet
        /\ Len(results) = Cardinality({ i \in 1..Len(attempts) : attempts[i].ok })
        /\ \A i \in 1..Len(attempts) :
              attempts[i].ok <=> (\E r \in ResultSet : r.used_psm = attempts[i].psm)
        /\ \A r \in ResultSet :
              /\ r.avg_conf.num * ocr_result.avg_conf.den
                    <= ocr_result.avg_conf.num * r.avg_conf.den
              /\ r.avg_conf = ocr_result.avg_conf =>
                    r.num_chars <= ocr_result.num_chars
        /\ \A f \in Permutations(1..Len(results)) :
              LET best == SelectResult(Permuted(results, f), config)
              IN  /\ best.avg_conf = ocr_result.avg_conf
                  /\ best.num_chars = ocr_result.num_chars

\* C3 witness: the mode tried first gave confidence 70 and 4 characters, a
\* later mode confidence 80 and 2 characters, and the later one was returned.
C3_Witness ==
    /\ ocr_pc = "done"
    /\ ocr_result.avg_conf = Rat(80, 1)
    /\ ocr_result.num_chars = 2
    /\ ocr_result.used_psm # unique_psms[1]
    /\ \E r \in ResultSet :
          /\ r.used_psm = unique_psms[1]
          /\ r.avg_conf = Rat(70, 1)
          /\ r.num_chars = 4

\* C4: run_ocr never raises; a mode on which the engine raises is skipped
\* and the modes after it are still tried; when every mode fails the result
\* is ("", 0.0, config.tess_psm, 0).
C4_NeverRaises ==
    /\ ocr_pc # "raised"
    /\ ocr_pc = "done" =>
          /\ Len(attempts) = Len(unique_psms)
          /\ \A i \in 1..Len(attempts) : attempts[i].psm = unique_psms[i]
    /\ (ocr_pc = "done" /\ \A i \in 1..Len(attempts) : ~attempts[i].ok) =>
          /\ ocr_result.text = <<>>
          /\ ocr_result.avg_conf = Rat(0, 1)
          /\ ocr_result.num_chars = 0
          /\ ocr_result.used_psm = config.tess_psm

\* C4 witness: base mode 3, the engine raised on each of the modes 3, 6, 4
\* and run_ocr returned the synthetic result naming mode 3.
C4_Witness ==
    /\ ocr_pc = "done"
    /\ config.tess_psm = 3
    /\ attempts = << [psm |-> 3, ok |-> FALSE, conf |-> <<>>],
                     [psm |-> 6, ok |-> FALSE, conf |-> <<>>],
                     [psm |-> 4, ok |-> FALSE, conf |-> <<>>] >>
    /\ ocr_result.used_psm = 3

\* C5: is_low_quality is true iff avg_conf < low_conf or num_chars <
\* min_chars, strictly: a result exactly at both thresholds is not low
\* quality.
C5_StrictGate ==
    gate_pc = "done" =>
        /\ low_quality <=>
              \/ gate_in.avg_conf.num * config.low_conf.den
                     < config.low_conf.num * gate_in.avg_conf.den
              \/ gate_in.num_chars * config.min_chars.den < config.min_chars.num
        /\ ( /\ gate_in.avg_conf = config.low_conf
             /\ Rat(gate_in.num_chars, 1) = config.min_chars ) => ~low_quality

\* C5 witness: a result with avg_conf = low_conf = 70 and num_chars =
\* min_chars = 2 was judged not low quality.
C5_Witness ==
    /\ gate_pc = "done"
    /\ config.low_conf = Rat(70, 1)
    /\ config.min_chars = Rat(2, 1)
    /\ gate_in.avg_conf = Rat(70, 1)
    /\ gate_in.num_chars = 2
    /\ ~low_quality

\* C10: the list of modes is [base_mode, 6, 3, 4] without its duplicates:
\* no element repeats, the elements are those of the original list, in the
\* order of their first occurrence, and the list starts with base_mode.
C10_ModeList ==
    ocr_pc \in {"loop", "done"} =>
        LET psms == <<config.tess_psm, 6, 3, 4>>
            U == unique_psms
            First(x) == MinOf({ i \in 1..4 : psms[i] = x })
        IN  /\ \A i, j \in 1..Len(U) : i # j => U[i] # U[j]
            /\ { U[i] : i \in 1..Len(U) } = { psms[i] : i \in 1..4 }
            /\ \A i, j \in 1..Len(U) : i < j => First(U[i]) < First(U[j])
            /\ U[1] = config.tess_psm
            /\ config.tess_psm = 6 => U = <<6, 3, 4>>
            /\ config.tess_psm \notin {6, 3, 4} => U = psms

\* C10 witness: base mode 6 gave the list [6, 3, 4].
C10_Witness ==
    /\ ocr_pc = "loop"
    /\ config.tess_psm = 6
    /\ unique_psms = <<6, 3, 4>>

\* C16 as stated: the num_chars of the result run_ocr returns is the length
\* of its text after removing every newline character.
C16_CharsAreTextLength ==
    ocr_pc = "done" =>
        ocr_result.num_chars = Len(RemoveNewlines(ocr_result.text))

\* C16 amended: the num_chars of the result run_ocr returns is the length
\* of its text after removing every newline character and then stripping
\* the leading and trailing whitespace; the synthetic result has empty text
\* and zero characters.
C16_CharsAreStrippedLength ==
    /\ ocr_pc = "done" =>
          ocr_result.num_chars = Len(Strip(RemoveNewlines(ocr_result.text)))
    /\ \A i \in 1..Len(results) :
          /\ results[i].num_chars = Len(Strip(RemoveNewlines(results[i].text)))
          /\ results[i].num_chars <= Len(RemoveNewlines(results[i].text))

\* C16 witness: run_ocr returned a text that ends in a blank, and counted
\* one character less than the text has without its newlines.
C16_Witness ==
    /\ ocr_pc = "done"
    /\ ocr_result.text = <<"a", "\n", "b", " ", "c", " ">>
    /\ ocr_result.num_chars = 4
    /\ Len(RemoveNewlines(ocr_result.text)) = 5

----------------------------------------------------------------------------
(* Properties of detect_headings *)

HeadingTags == {"H1", "H2", "H3"}

\* the position in the engine's word list of the first word of line n
FirstWord(n) ==
    MinOf({ k \in 1..Len(head_in.data) : head_in.data[k].line_num = n })

\* the engine's line numbers that have a word with non-whitespace text
NonBlankNums ==
    { head_in.data[k].line_num : k \in { j \in 1..Len(head_in.data) :
                                           Strip(head_in.data[j].text) # <<>> } }

\* twice the median height of the retained lines
HeadMedian2 == Median2([i \in 1..Len(head_lines) |-> head_lines[i].height])

\* the positions in head_lines of the heading candidates
CandidatePositions ==
    { i \in 1..Len(head_lines) : 10 * head_lines[i].height >= 7 * HeadMedian2 }

\* C11: the output has one (tag, text) entry per retained line, the i-th
\* entry carries the text of the i-th retained line, and the retained lines
\* are in the order in which the engine first reported them, whatever the
\* vertical order of the candidates.
C11_DocumentOrder ==
    head_pc = "done" =>
        /\ Len(head_tags) = Len(head_lines)
        /\ Len(head_nums) = Len(head_lines)
        /\ \A i \in 1..Len(head_tags) :
              /\ head_tags[i].text = head_lines[i].text
              /\ head_tags[i].tag \in HeadingTags \cup {"P"}
              /\ head_tags[i].text =
                    Strip(Join([k \in 1..Len(WordsOfLine(head_in.data, head_nums[i]))
                                  |-> WordsOfLine(head_in.data, head_nums[i])[k].text]))
        /\ \A i, j \in 1..Len(head_nums) :
              i < j => FirstWord(head_nums[i]) < FirstWord(head_nums[j])

\* C11 witness: of two candidates the one later in the document stands
\* higher on the page, and the output kept the document order.
C11_Witness ==
    /\ head_pc = "done"
    /\ \E i, j \in 1..Len(head_tags) :
          /\ i < j
          /\ head_tags[i].tag = "H3"
          /\ head_tags[j].tag = "H1"
          /\ head_lines[j].top < head_lines[i].top
          /\ head_tags[i].text = <<"T">>
          /\ head_tags[j].text = <<"K">>

\* C12: the candidate that comes first in vertical order (smallest top, the
\* earlier line among equal tops) is tagged H1 if its top is within the top
\* 30% of the page height and H2 otherwise; every other candidate is tagged
\* H3.
C12_FirstCandidateOnly ==
    (head_pc = "done" /\ head_lines # <<>> /\ CandidatePositions # {}) =>
        LET C     == CandidatePositions
            first == CHOOSE i \in C : \A j \in C :
                        \/ head_lines[i].top < head_lines[j].top
                        \/ head_lines[i].top = head_lines[j].top /\ i <= j
        IN  /\ head_tags[first].tag =
                  (IF 10 * head_lines[first].top < 3 * head_in.page_h THEN "H1" ELSE "H2")
            /\ \A j \in C \ {first} : head_tags[j].tag = "H3"

\* C13: the tags of a page contain at most one entry tagged H1 or H2.
C13_OneTopHeading ==
    head_pc = "done" =>
        Cardinality({ i \in 1..Len(head_tags) : head_tags[i].tag \in {"H1", "H2"} }) <= 1

\* C14: a retained line is tagged H1, H2 or H3 iff its height is at least
\* 1.4 times the median height of the retained lines, and P iff it is below.
C14_CandidateThreshold ==
    (head_pc = "done" /\ head_lines # <<>>) =>
        \A i \in 1..Len(head_lines) :
            /\ head_tags[i].tag \in HeadingTags <=> 10 * head_lines[i].height >= 7 * HeadMedian2
            /\ head_tags[i].tag = "P" <=> 10 * head_lines[i].height < 7 * HeadMedian2

\* C14 witness: a line exactly 1.4 times as high as the median is a heading,
\* next to a line above the median that is not.
C14_Witness ==
    /\ head_pc = "done"
    /\ head_lines # <<>>
    /\ HeadMedian2 = 10
    /\ \E i, j \in 1..Len(head_lines) :
          /\ head_lines[i].height = 7
          /\ head_tags[i].tag \in HeadingTags
          /\ head_lines[j].height = 3
          /\ head_tags[j].tag = "P"

\* C15: a line whose words are all empty or whitespace is dropped, a line
\* with a word that is not is kept, no output entry has blank text, and
\* when no word has non-whitespace text the output is empty.
C15_BlankLinesDropped ==
    head_pc = "done" =>
        /\ \A i \in 1..Len(head_tags) :
              /\ head_tags[i].text # <<>>
              /\ Strip(head_tags[i].text) = head_tags[i].text
        /\ Len(head_tags) = Cardinality(NonBlankNums)
        /\ { head_nums[i] : i \in 1..Len(head_nums) } = NonBlankNums
        /\ NonBlankNums = {} => head_tags = <<>>

\* C15 witness: the engine reported a blank line between two lines of text
\* and the output has the two lines of text only.
C15_Witness ==
    /\ head_pc = "done"
    /\ Len(LineNums(head_in.data)) = 3
    /\ head_nums = <<1, 3>>
    /\ Len(head_tags) = 2

\* C17: a condition raised by the engine is propagated neither by run_ocr
\* nor by detect_headings.
C17_EngineNeverPropagates ==
    /\ ocr_pc # "raised"
    /\ head_pc # "raised"

----------------------------------------------------------------------------
(* SpecDetect: the detector applied to one image *)

InitDetect ==
    /\ config = DefaultConfig
    /\ \E w \in 0..DetMaxW, h \in 0..DetMaxH :
         \E col \in [1..w -> Pixels] : det_img = StripeImage(w, h, col)
    /\ det_out = NotCalled
    /\ IdleSplit
    /\ IdleOcr
    /\ IdleGate
    /\ IdleHead
    /\ IdleMd
    /\ IdleCli
    /\ IdleAll

Detect ==
    /\ det_img # NoImage
    /\ det_out = NotCalled
    /\ det_out' = _detect_split_type(det_img)
    /\ UNCHANGED <<allVars, config, cliVars, mdVars, headVars, det_img, splitVars, ocrVars, gateVars>>

NextDetect == Detect

SpecDetect == InitDetect /\ [][NextDetect]_vars

\* img.crop(box) for a box inside the image
CropImage(img, box) ==
    StripeImage(BoxW(box), BoxH(box), SubSeq(img.row, box[1] + 1, box[3]))

\* the crop box lies inside the scan and has a positive area
BoxInside ==
    /\ 0 <= cur.box[1] /\ cur.box[1] < cur.box[3] /\ cur.box[3] <= cur.w
    /\ 0 <= cur.box[2] /\ cur.box[2] < cur.box[4] /\ cur.box[4] <= cur.h

\* C23: for every scan split_pages processes without an override, the type
\* the heuristic detected is the type of the margin-cropped image, the one
\* that is split: the crop comes before the projection profile.
C23_DetectsCroppedImage ==
    ( /\ CurSplit
      /\ cur.scan \notin DOMAIN override_map
      /\ BoxInside ) =>
        cur.heur = _detect_split_type(CropImage(input_paths[cur.scan + 1], cur.box)).type

----------------------------------------------------------------------------
(* Properties of cmd_ocr *)

\* C27: in every call of run_ocr that cmd_ocr makes, config.tess_psm is
\* within 0..13 and config.preprocess is one of the three known profiles,
\* also after the command-line overrides.
C27_ValidConfigReachesCore ==
    \A i \in 1..Len(ocr_calls) :
        /\ ocr_calls[i].tess_psm \in PsmRange
        /\ ocr_calls[i].preprocess \in Profiles

----------------------------------------------------------------------------
(* Properties of the detector alone *)

\* the 0-based columns of det_img whose smoothed value is below 0.6 times
\* the median
DetCandidates ==
    LET smoothed == GaussianBlur(Profile(det_img))
    IN  IF det_img.w = 0 \/ SeqMax(Profile(det_img)) = 0 THEN {}
        ELSE { c \in 0..(det_img.w - 1) : 20 * smoothed[c + 1] < 6 * Median2(smoothed) }

\* the candidate columns that open a group: those with no candidate among
\* the MaxGap columns before them
GroupStarts ==
    { c \in DetCandidates : \A d \in DetCandidates : d < c => c - d > MaxGap }

\* C22: the type _detect_split_type returns is determined by the number of
\* gutter groups, two consecutive candidate columns being in the same group
\* iff they differ by at most 5: two or more groups give quadruple, one
\* group gives double, no candidate column gives single.
C22_TypeByGroupCount ==
    (det_out # NotCalled /\ ~det_out.raised) =>
        /\ Len(det_out.splits) = Cardinality(GroupStarts)
        /\ Cardinality(GroupStarts) >= 2 => det_out.type = "quadruple"
        /\ Cardinality(GroupStarts) = 1 => det_out.type = "double"
        /\ DetCandidates = {} => det_out.type = "single"

\* C22 witness: two dark columns six apart are two groups, and the scan is
\* classified quadruple.
C22_Witness ==
    /\ det_out # NotCalled
    /\ ~det_out.raised
    /\ DetCandidates = {0, 6}
    /\ det_out.splits = <<0, 6>>
    /\ det_out.type = "quadruple"

----------------------------------------------------------------------------
(* Termination of run_ocr *)

\* the modes attempted so far are the first modes of the deduplicated list,
\* each once and in list order, and there are at most 4 of them
AttemptsFollowList ==
    /\ Len(attempts) <= 4
    /\ Len(attempts) <= Len(unique_psms)
    /\ \A i \in 1..Len(attempts) : attempts[i].psm = unique_psms[i]
    /\ \A i, j \in 1..Len(attempts) : i # j => attempts[i].psm # attempts[j].psm
    /\ ocr_pc = "done" => Len(attempts) = Len(unique_psms)

\* C25: run_ocr always terminates, after attempting each mode of the
\* deduplicated list exactly once, in list order, whatever the outcome of
\* the earlier attempts: at most 4 attempts per page and no mode retried.
C25_TerminatesOncePerMode ==
    /\ <>(ocr_pc = "done")
    /\ [](ocr_pc # "raised" /\ AttemptsFollowList)

\* C25 witness: run_ocr returned after four attempts, one of which failed,
\* with a result that is low quality.
C25_Witness ==
    /\ ocr_pc = "done"
    /\ Len(attempts) = 4
    /\ \E i \in 1..4 : ~attempts[i].ok
    /\ \E i \in 1..4 : attempts[i].ok
    /\ is_low_quality(ocr_result, config)

----------------------------------------------------------------------------
(* Properties of the confidence average *)

\* the word confidences that are not the sentinel -1, however reported
NonSentinel(conf) ==
    LET kept == SelectSeq(conf, LAMBDA c : c.val # -1)
    IN  [i \in 1..Len(kept) |-> kept[i].val]

\* C24: the average confidence of every mode that answered is the mean of
\* its word confidences that are not the sentinel -1, and 0.0 when none is
\* left.
C24_SentinelExcluded ==
    \A i \in 1..Len(attempts) :
        attempts[i].ok =>
            \E k \in 1..Len(results) :
                /\ results[k].used_psm = attempts[i].psm
                /\ results[k].avg_conf = MeanOrZero(NonSentinel(attempts[i].conf))

----------------------------------------------------------------------------
(* Properties of build_markdown *)

\* every OCR mode fails on the file
Unreadable(file) ==
    \A i \in 1..Len(Dedup(<<config.tess_psm, 6, 3, 4>>)) :
        file.outs[Dedup(<<config.tess_psm, 6, 3, 4>>)[i]].kind # "ok"

\* the lines of the section of page i
SectionOf(i) == SelectSeq(md_lines, LAMBDA l : l.page = i)

HasLine(section, kind) == \E k \in 1..Len(section) : section[k].kind = kind

\* C19: with embed_images = auto, build_markdown completes for all pages,
\* and the section of every unreadable page embeds the page image and
\* contains no recognized text.
C19_UnreadableEmbedsImage ==
    (md_pc \in {"done", "raised"} /\ config.embed_images = "auto") =>
        /\ md_pc = "done"
        /\ Len(pages) = Len(page_paths)
        /\ \A i \in 1..Len(pages) :
              Unreadable(FileAt(md_sorted, pages[i].img_path)) =>
                  /\ pages[i].avg_conf = Rat(0, 1) /\ pages[i].chars = 0
                  /\ HasLine(SectionOf(i), "image")
                  /\ ~HasLine(SectionOf(i), "text")

\* C20: the i-th page section written by build_markdown belongs to the i-th
\* logical page of split_pages: the page file at position i of the sorted
\* list carries page number i.
C20_PageOrder ==
    /\ \A i \in 1..Len(pages) :
          /\ pages[i].index = i
          /\ PageNumberOf(pages[i].img_path) = i
    /\ md_pc = "done" =>
          /\ Len(pages) = Len(page_paths)
          /\ \A i \in 1..Len(pages) : HasLine(SectionOf(i), "heading")

\* C28: _allow_text is the complement of is_low_quality, so that
\* render_text_only prints the OCR text of a page iff the page is not low
\* quality and its text is not blank, and the placeholder otherwise.
C28_FilterIsGateComplement ==
    (md_pc = "done" /\ config.embed_images # "all") =>
        \A i \in 1..Len(pages) :
            LET res == [avg_conf |-> pages[i].avg_conf, num_chars |-> pages[i].chars]
                prints == ~is_low_quality(res, config) /\ Strip(pages[i].text) # <<>>
            IN  /\ _allow_text(pages[i].avg_conf, pages[i].chars, config)
                       <=> ~is_low_quality(res, config)
                /\ HasLine(SectionOf(i), "text") <=> prints
                /\ HasLine(SectionOf(i), "filtered") <=> ~prints

----------------------------------------------------------------------------
(* Properties of load_config and of cmd_ocr *)

\* the entries of split_strategy in the YAML file
YamlRules ==
    IF "split_strategy" \in DOMAIN yaml_data THEN yaml_data.split_strategy ELSE <<>>

\* C21: the configuration load_config returns has, for every key of the
\* YAML file, the value written there (pdf_file as a Path), and
\* split_strategy holds one SplitRule per YAML entry, in the same order,
\* with page and type as written.
C21_LoadedAsWritten ==
    cli_pc = "loaded" =>
        /\ \A k \in DOMAIN yaml_data \ {"pdf_file", "split_strategy"} : config[k] = yaml_data[k]
        /\ config.pdf_file = PathOf(yaml_data.pdf_file)
        /\ Len(config.split_strategy) = Len(YamlRules)
        /\ \A i \in 1..Len(YamlRules) :
              /\ config.split_strategy[i].page = YamlRules[i].page
              /\ config.split_strategy[i].type = YamlRules[i].type

\* C21 witness: the file of test_load_config's kind is loaded, with
\* tess_psm 4, preprocess pil_bin and the rules for page 1 and pages "2-4".
C21_Witness ==
    /\ cli_pc = "loaded"
    /\ config.book_title = <<"T", " ", "b">>
    /\ config.pdf_file = [parts |-> <<"input", "test.pdf">>]
    /\ config.preprocess = "pil_bin"
    /\ config.tess_psm = 4
    /\ config.crop_pct = 10
    /\ Len(config.split_strategy) = 2
    /\ config.split_strategy[1].page = IntPage(1)
    /\ config.split_strategy[2].page = RangePage(2, 4)

\* what detect_headings returns for the words the engine reports
detect_headings(words, page_h) ==
    LET lines == _group_lines(words)
    IN  IF lines = <<>> THEN <<>> ELSE TagLines(lines, Candidates(lines), page_h)

\* the lines of a section that are neither its "## Page i" line nor blank
ContentOf(i) ==
    SelectSeq(SectionOf(i), LAMBDA l : l.kind \notin {"heading", "blank"})

\* C26: for every page that build_markdown runs OCR on, the tagged-line
\* sequence of detect_headings is what the section of the page holds: one
\* line per tagged line, in order, with its tag and its text.
C26_WritesTaggedLines ==
    (md_pc = "done" /\ config.embed_images # "all") =>
        \A i \in 1..Len(pages) :
            LET out == FileAt(md_sorted, pages[i].img_path).outs[config.tess_psm]
            IN  out.kind = "ok" =>
                    LET tagged == detect_headings(out.words, out.page_h)
                    IN  /\ Len(ContentOf(i)) = Len(tagged)
                        /\ \A k \in 1..Len(tagged) :
                              /\ ContentOf(i)[k].kind = tagged[k].tag
                              /\ ContentOf(i)[k].text = tagged[k].text

----------------------------------------------------------------------------
(* Properties of cmd_all *)

\* C29: every stage derives the same sub-directory name from the
\* configuration: the slugs of extract_pages, of split_pages and cmd_ocr,
\* and of build_markdown are equal, whatever the book_title.
C29_OneSlug ==
    \A i, j \in 1..Len(dirs) : dirs[i].slug = dirs[j].slug

\* C30: every image handed to run_ocr along cmd_all is the page as
\* split_pages wrote it, cropped once: neither cmd_ocr nor build_markdown
\* cuts a second margin off it.
C30_CroppedOnce ==
    \A k \in 1..Len(handed) : handed[k].box = all_pages[handed[k].page]

----------------------------------------------------------------------------
(* The whole model *)

Init ==
    \/ InitDetect \/ InitSplit \/ InitCrop \/ InitSpread \/ InitOcr \/ InitGate
    \/ InitHead \/ InitMarkdown \/ InitBook \/ InitCli \/ InitAll

Next ==
    \/ NextDetect \/ NextSplit \/ NextOcr \/ NextGate \/ NextHead \/ NextMd \/ NextCli
    \/ NextAll

Spec == Init /\ [][Next]_vars

====
